---- MODULE Spec2Model ----
(***************************************************************************)
(* nand2tetris toolchain: the Hack assembler (src/06), the VM translator   *)
(* (src/07, src/08) and the code they emit, executed on the Hack machine,  *)
(* and the Jack compiler (src/11).                                         *)
(* Text is modelled as TLA+ strings; a character is a string of length 1.  *)
(* Positions are 1-based, and Find returns 0 where str.find returns -1.    *)
(***************************************************************************)
EXTENDS Integers, Sequences, FiniteSets, TLC

VARIABLES
    asmFile,    \* assembler: the lines of the .asm input file
    lines,      \* assembler: Parser.lines, the stripped lines not yet parsed
    plineno,    \* assembler: lineno of Parser.parse
    insts,      \* assembler: insts of assemble
    lineno,     \* assembler: lineno of assemble (pass 1)
    symbols,    \* assembler: the symbol table, a function from names to addresses
    nextsym,    \* assembler: nextsym of assemble (pass 2)
    out,        \* assembler: the words yielded by assemble so far
    hackFile,   \* assembler: the .hack file, [exists, text: its lines]
    ret,        \* assembler: what main returns
    ip,         \* assembler: how many of insts pass 2 has consumed
    apc,        \* assembler: position of main/assemble
    vmFiles,    \* VM translator: the input files, each [module, lines]
    vmIsDir,    \* VM translator: whether the argument of main is a directory
    tmpFile,    \* VM translator: the temporary output file
    asmOut,     \* VM translator: the .asm file main moves the temporary file to
    vret,       \* VM translator: what main returns
    fidx,       \* VM translator: how many files main has begun
    cmds,       \* VM translator: the commands of the current module not yet translated
    tr,         \* VM translator: the Translator of the current module
    vpc,        \* VM translator: position of main
    rom,        \* Hack machine: the instruction memory, one 16-bit word per cell
    regA,       \* Hack machine: the A register
    regD,       \* Hack machine: the D register
    PC,         \* Hack machine: the program counter
    ram,        \* Hack machine: the data memory cells that differ from their default
    ram0,       \* Hack machine: the data memory when the program was loaded
    hpc,        \* Hack machine: off, run
    cparts,     \* C-instruction check: the dest, comp and jump the text is made of
    cline,      \* C-instruction check: the text handed to the assembler
    cres,       \* C-instruction check: what the assembler made of it
    jackFiles,  \* Jack compiler: the input files, each [module, lines]
    classes,    \* Jack compiler: Program.classes
    syms,       \* Jack compiler: Generator.syms, the SymTable
    jout,       \* Jack compiler: the lines written to Generator.f
    jret,       \* Jack compiler: None, or the exception that ended the run
    jci,        \* Jack compiler: how many files or classes the current loop has begun
    jsi,        \* Jack compiler: how many subroutines of the class are generated
    jpc,        \* Jack compiler: position of test / Generator.generate
    lexLines,   \* Jack lexer: the lines handed to lexer
    lexToks,    \* Jack lexer: the tokens the generator has yielded
    lexExc,     \* Jack lexer: None, or the exception that left the generator
    lpc         \* Jack lexer: start, done

asmVars == <<asmFile, lines, plineno, insts, lineno, symbols, nextsym, out,
             hackFile, ret, ip, apc>>
cVars == <<cparts, cline, cres>>

vmVars == <<vmFiles, vmIsDir, tmpFile, asmOut, vret, fidx, cmds, tr, vpc>>
hackVars == <<rom, regA, regD, PC, ram, ram0, hpc>>
jackVars == <<jackFiles, classes, syms, jout, jret, jci, jsi, jpc>>
lexVars == <<lexLines, lexToks, lexExc, lpc>>

\* what the steps of one tool leave alone: the state of the others
notAsm == <<cVars, vmVars, hackVars, jackVars, lexVars>>
notC == <<asmVars, vmVars, hackVars, jackVars, lexVars>>
notVm == <<asmVars, cVars, hackVars, jackVars, lexVars>>
notHack == <<asmVars, cVars, vmVars, jackVars, lexVars>>
notJack == <<asmVars, cVars, vmVars, hackVars, lexVars>>
notLex == <<asmVars, cVars, vmVars, hackVars, jackVars>>

(***************************************************************************)
(* Bounds of the model.                                                    *)
(***************************************************************************)
MaxLines == 4

(***************************************************************************)
(* Text helpers (Python str operations).                                   *)
(***************************************************************************)
Ch(s, i) == SubSeq(s, i, i)

Digit == {"0", "1", "2", "3", "4", "5", "6", "7", "8", "9"}

Alpha == {"a", "b", "c", "d", "e", "f", "g", "h", "i", "j", "k", "l", "m",
          "n", "o", "p", "q", "r", "s", "t", "u", "v", "w", "x", "y", "z",
          "A", "B", "C", "D", "E", "F", "G", "H", "I", "J", "K", "L", "M",
          "N", "O", "P", "Q", "R", "S", "T", "U", "V", "W", "X", "Y", "Z"}

Whitespace == {" ", "\t", "\n", "\r"}

\* \w of the regular expressions
WordChar == Alpha \cup Digit \cup {"_"}

AllIn(s, set) == \A i \in 1..Len(s) : Ch(s, i) \in set

\* str.find for a one-character needle: the first position, 0 when absent
Find(s, c) ==
    IF \E i \in 1..Len(s) : Ch(s, i) = c
    THEN CHOOSE i \in 1..Len(s) : Ch(s, i) = c /\ \A j \in 1..(i-1) : Ch(s, j) # c
    ELSE 0

\* line.split('//')[0]
BeforeComment(s) ==
    IF \E i \in 1..(Len(s)-1) : SubSeq(s, i, i+1) = "//"
    THEN LET p == CHOOSE i \in 1..(Len(s)-1) :
                      /\ SubSeq(s, i, i+1) = "//"
                      /\ \A j \in 1..(i-1) : SubSeq(s, j, j+1) # "//"
         IN SubSeq(s, 1, p-1)
    ELSE s

RECURSIVE RemoveWs(_)
\* ''.join(s.split())
RemoveWs(s) ==
    IF Len(s) = 0 THEN ""
    ELSE IF Ch(s, 1) \in Whitespace THEN RemoveWs(SubSeq(s, 2, Len(s)))
    ELSE Ch(s, 1) \o RemoveWs(SubSeq(s, 2, Len(s)))

DigitVal(c) == CHOOSE d \in 0..9 : Ch("0123456789", d+1) = c

RECURSIVE int(_)
\* int(s) for a string of decimal digits
int(s) ==
    IF Len(s) = 0 THEN 0
    ELSE 10 * int(SubSeq(s, 1, Len(s)-1)) + DigitVal(Ch(s, Len(s)))

RECURSIVE Str(_)
\* str(n) for n >= 0
Str(n) ==
    IF n < 10 THEN Ch("0123456789", n+1)
    ELSE Str(n \div 10) \o Ch("0123456789", (n % 10) + 1)

RECURSIVE Bin(_)
\* the binary digits of n >= 0, most significant first, "0" for 0
Bin(n) ==
    IF n < 2 THEN Ch("01", n+1)
    ELSE Bin(n \div 2) \o Ch("01", (n % 2) + 1)

RECURSIVE Zeros(_)
Zeros(k) == IF k <= 0 THEN "" ELSE "0" \o Zeros(k-1)

\* format(n, '016b') and format(n, '03b'): zero-padded to AT LEAST w digits
Format(n, w) == Zeros(w - Len(Bin(n))) \o Bin(n)

(***************************************************************************)
(* src/06/HackAssembler.py: the instruction records.                       *)
(***************************************************************************)
Error(msg) == [tag |-> "Error", msg |-> msg]
Const(s) == [tag |-> "Const", symbol |-> s]
Label(s) == [tag |-> "Label", symbol |-> s]
AInstruction(sym) == [tag |-> "A", symbol |-> sym]
LInstruction(s) == [tag |-> "L", symbol |-> s]
CInstruction(d, c, j) == [tag |-> "C", dest |-> d, comp |-> c, jump |-> j]

\* Parser.jmp: the list index is the jump code
jmp == <<"", "JGT", "JEQ", "JGE", "JLT", "JNE", "JLE", "JMP">>

\* Parser.comp
comp ==
    [k \in {"0", "1", "-1", "D", "A", "M", "!D", "!A", "!M", "-D", "-A", "-M",
            "D+1", "A+1", "M+1", "D-1", "A-1", "M-1", "D+A", "D+M", "D-A",
            "D-M", "A-D", "M-D", "D&A", "D&M", "D|A", "D|M"} |->
     CASE k = "0" -> "0101010"
       [] k = "1" -> "0111111"
       [] k = "-1" -> "0111010"
       [] k = "D" -> "0001100"
       [] k = "A" -> "0110000"
       [] k = "M" -> "1110000"
       [] k = "!D" -> "0001101"
       [] k = "!A" -> "0110001"
       [] k = "!M" -> "1110001"
       [] k = "-D" -> "0001111"
       [] k = "-A" -> "0110011"
       [] k = "-M" -> "1110011"
       [] k = "D+1" -> "0011111"
       [] k = "A+1" -> "0110111"
       [] k = "M+1" -> "1110111"
       [] k = "D-1" -> "0001110"
       [] k = "A-1" -> "0110010"
       [] k = "M-1" -> "1110010"
       [] k = "D+A" -> "0000010"
       [] k = "D+M" -> "1000010"
       [] k = "D-A" -> "0010011"
       [] k = "D-M" -> "1010011"
       [] k = "A-D" -> "0000111"
       [] k = "M-D" -> "1000111"
       [] k = "D&A" -> "0000000"
       [] k = "D&M" -> "1000000"
       [] k = "D|A" -> "0010101"
       [] k = "D|M" -> "1010101"]

\* Parser.__init__.strip
strip(line) == RemoveWs(BeforeComment(line))

\* re.fullmatch(Parser.const, s)
MatchConst(s) == Len(s) >= 1 /\ AllIn(s, Digit)

\* re.fullmatch(Parser.label, s)
MatchLabel(s) ==
    /\ Len(s) >= 1
    /\ Ch(s, 1) \in Alpha \cup {".", "$", ":"}
    /\ AllIn(s, WordChar \cup {".", "$", ":"})

\* re.fullmatch(Parser.dest, s)
MatchDest(s) == Len(s) >= 1 /\ AllIn(s, {"A", "D", "M"})

\* Parser.symbol
symbol(line) ==
    IF MatchConst(line)
    THEN IF int(line) > 32767 THEN Error("constant too large") ELSE Const(line)
    ELSE IF MatchLabel(line) THEN Label(line)
    ELSE Error("invalid symbol")

\* Parser.lInstruction
lInstruction(line) ==
    LET end == Find(line, ")") IN
    IF end = Len(line) /\ end # 0
    THEN IF MatchLabel(SubSeq(line, 2, end-1))
         THEN LInstruction(SubSeq(line, 2, end-1))
         ELSE Error("invalid label \"" \o SubSeq(line, 2, end-1) \o "\"")
    ELSE IF end = 0 THEN Error("unexpected end of label")
    ELSE Error("expected end of label, found \"" \o SubSeq(line, end, Len(line)) \o "\"")

\* Parser.aInstruction
aInstruction(line) ==
    LET s == symbol(SubSeq(line, 2, Len(line))) IN
    IF s.tag = "Error" THEN s ELSE AInstruction(s)

\* the dest mask of Parser.cInstruction: one bit per letter of 'ADM'
MutDestBits(dest) ==
    Ch("01", (IF Find(dest, "M") # 0 THEN 2 ELSE 1))
    \o Ch("01", (IF Find(dest, "D") # 0 THEN 2 ELSE 1))
    \o Ch("01", (IF Find(dest, "A") # 0 THEN 2 ELSE 1))

DestBits(dest) ==
    Ch("01", (IF Find(dest, "A") # 0 THEN 2 ELSE 1))
    \o Ch("01", (IF Find(dest, "D") # 0 THEN 2 ELSE 1))
    \o Ch("01", (IF Find(dest, "M") # 0 THEN 2 ELSE 1))

\* Parser.cInstruction
cInstruction(line0) ==
    LET d1 == Find(line0, "=")
        dest == IF d1 # 0 THEN SubSeq(line0, 1, d1-1) ELSE ""
        line1 == IF d1 # 0 THEN SubSeq(line0, d1+1, Len(line0)) ELSE line0
        d2 == Find(line1, ";")
        line == IF d2 # 0 THEN SubSeq(line1, 1, d2-1) ELSE line1
        j == IF d2 # 0 THEN SubSeq(line1, d2+1, Len(line1)) ELSE ""
    IN
    IF Len(line) = 0 THEN Error("missing computation")
    ELSE IF line \notin DOMAIN comp
    THEN Error("invalid computation \"" \o line \o "\"")
    ELSE IF /\ Len(dest) # 0
            /\ \/ ~MatchDest(dest)
               \/ Cardinality({Ch(dest, i) : i \in 1..Len(dest)}) # Len(dest)
    THEN Error("invalid destination \"" \o dest \o "\"")
    ELSE IF \A i \in 1..Len(jmp) : jmp[i] # j
    THEN Error("invalid jump \"" \o j \o "\"")
    ELSE CInstruction(DestBits(dest), comp[line],
                      Format((CHOOSE i \in 1..Len(jmp) : jmp[i] = j) - 1, 3))

\* the body of the loop of Parser.parse: one line to one instruction
parseLine(n, line) ==
    LET inst == CASE Ch(line, 1) = "(" -> lInstruction(line)
                  [] Ch(line, 1) = "@" -> aInstruction(line)
                  [] OTHER -> cInstruction(line)
    IN IF inst.tag = "Error"
       THEN Error("Line " \o Str(n) \o ": " \o inst.msg)
       ELSE inst

\* SYMBOLS, and the five names main adds to it
SYMBOLS ==
    [s \in {"SP", "LCL", "ARG", "THIS", "THAT",
            "R0", "R1", "R2", "R3", "R4", "R5", "R6", "R7", "R8", "R9", "R10",
            "R11", "R12", "R13", "R14", "R15", "SCREEN", "KBD"} |->
     CASE s = "SP" -> 0
       [] s = "LCL" -> 1
       [] s = "ARG" -> 2
       [] s = "THIS" -> 3
       [] s = "THAT" -> 4
       [] s = "SCREEN" -> 16384
       [] s = "KBD" -> 24576
       [] OTHER -> int(SubSeq(s, 2, Len(s)))]

\* the first data address assemble gives to a variable
FirstVar == 16

(***************************************************************************)
(* src/06/HackAssembler.py: Parser.__init__, assemble and main as steps.   *)
(***************************************************************************)
None == [tag |-> "None"]
Raised(msg) == [tag |-> "Err", msg |-> msg]

NonEmpty(line) == Len(line) # 0

\* Parser.__init__: the stripped lines of the file, the empty ones dropped
stripAll(file) == SelectSeq([i \in 1..Len(file) |-> strip(file[i])], NonEmpty)

\* the lines an input file is made of
AsmLineChoices ==
    {"@i", "@j", "@LOOP", "(LOOP)", "@SP", "@2", " D = M ; JGT  // x",
     "@40000", "  // note"}

AsmFiles == UNION {[1..n -> AsmLineChoices] : n \in 0..MaxLines}

AsmIdle ==
    /\ asmFile = <<>>
    /\ lines = <<>>
    /\ plineno = 0
    /\ insts = <<>>
    /\ lineno = 0
    /\ symbols = SYMBOLS
    /\ nextsym = FirstVar
    /\ out = <<>>
    /\ hackFile = [exists |-> FALSE, text |-> <<>>]
    /\ ret = None
    /\ ip = 0
    /\ apc = "idle"

NoParts == [hasEq |-> FALSE, dest |-> "", comp |-> "", hasSemi |-> FALSE, jump |-> ""]

CIdle == cparts = NoParts /\ cline = "" /\ cres = None

InitAsm ==
    /\ asmFile \in AsmFiles
    /\ lines = <<>>
    /\ plineno = 0
    /\ insts = <<>>
    /\ lineno = 0
    /\ symbols = SYMBOLS
    /\ nextsym = FirstVar
    /\ out = <<>>
    /\ hackFile = [exists |-> FALSE, text |-> <<>>]
    /\ ret = None
    /\ ip = 0
    /\ apc = "start"

\* main: open(hack, 'w') creates the output file, then Parser(asm) reads the input
MainOpen ==
    /\ apc = "start"
    /\ hackFile' = [exists |-> TRUE, text |-> <<>>]
    /\ lines' = stripAll(asmFile)
    /\ apc' = "pass1"
    /\ UNCHANGED <<asmFile, plineno, insts, lineno, symbols, nextsym, out, ret, ip>>
    /\ UNCHANGED notAsm

\* the address pass 1 binds a label to
MutLabelAddress(n) == n + 1

LabelAddress(n) == n

\* assemble, pass 1: a label line binds its symbol
Pass1Label ==
    /\ apc = "pass1"
    /\ lines # <<>>
    /\ LET inst == parseLine(plineno + 1, Head(lines)) IN
        /\ inst.tag = "L"
        /\ symbols' = (inst.symbol :> LabelAddress(lineno)) @@ symbols
        /\ UNCHANGED <<insts, lineno>>
    /\ plineno' = plineno + 1
    /\ lines' = Tail(lines)
    /\ UNCHANGED <<asmFile, nextsym, out, hackFile, ret, ip, apc>>
    /\ UNCHANGED notAsm

\* assemble, pass 1: any other line (an Error too) takes the next address
Pass1Inst ==
    /\ apc = "pass1"
    /\ lines # <<>>
    /\ LET inst == parseLine(plineno + 1, Head(lines)) IN
        /\ inst.tag # "L"
        /\ lineno' = lineno + 1
        /\ insts' = Append(insts, inst)
    /\ plineno' = plineno + 1
    /\ lines' = Tail(lines)
    /\ UNCHANGED <<asmFile, symbols, nextsym, out, hackFile, ret, ip, apc>>
    /\ UNCHANGED notAsm

\* assemble: the parser is exhausted, pass 2 begins
Pass1Done ==
    /\ apc = "pass1"
    /\ lines = <<>>
    /\ nextsym' = FirstVar
    /\ ip' = 0
    /\ apc' = "pass2"
    /\ UNCHANGED <<asmFile, lines, plineno, insts, lineno, symbols, out, hackFile, ret>>
    /\ UNCHANGED notAsm

\* the word of an A-instruction
MutAWord(data) == Format(data, 15)

AWord(data) == Format(data, 16)

\* does pass 2 give this symbol a new data address
MutIsNewSymbol(s, table) == s \notin DOMAIN SYMBOLS

IsNewSymbol(s, table) == s \notin DOMAIN table

\* assemble, pass 2: an Error instruction raises; main returns the message
\* and leaves the file it opened
Pass2Error ==
    /\ apc = "pass2"
    /\ ip < Len(insts)
    /\ insts[ip + 1].tag = "Error"
    /\ ret' = Raised(insts[ip + 1].msg)
    /\ apc' = "done"
    /\ UNCHANGED <<asmFile, lines, plineno, insts, lineno, symbols, nextsym, out,
                   hackFile, ip>>
    /\ UNCHANGED notAsm

\* assemble, pass 2: @constant
Pass2Const ==
    /\ apc = "pass2"
    /\ ip < Len(insts)
    /\ insts[ip + 1].tag = "A"
    /\ insts[ip + 1].symbol.tag = "Const"
    /\ out' = Append(out, AWord(int(insts[ip + 1].symbol.symbol)))
    /\ ip' = ip + 1
    /\ UNCHANGED <<asmFile, lines, plineno, insts, lineno, symbols, nextsym,
                   hackFile, ret, apc>>
    /\ UNCHANGED notAsm

\* assemble, pass 2: @symbol, bound to the next data address when it is new
Pass2Symbol ==
    /\ apc = "pass2"
    /\ ip < Len(insts)
    /\ insts[ip + 1].tag = "A"
    /\ insts[ip + 1].symbol.tag = "Label"
    /\ LET s == insts[ip + 1].symbol.symbol IN
        /\ symbols' = IF IsNewSymbol(s, symbols) THEN (s :> nextsym) @@ symbols
                      ELSE symbols
        /\ nextsym' = IF IsNewSymbol(s, symbols) THEN nextsym + 1 ELSE nextsym
        /\ out' = Append(out, AWord(symbols'[s]))
    /\ ip' = ip + 1
    /\ UNCHANGED <<asmFile, lines, plineno, insts, lineno, hackFile, ret, apc>>
    /\ UNCHANGED notAsm

\* assemble, pass 2: a C-instruction
Pass2C ==
    /\ apc = "pass2"
    /\ ip < Len(insts)
    /\ insts[ip + 1].tag = "C"
    /\ out' = Append(out, "111" \o insts[ip + 1].comp \o insts[ip + 1].dest
                              \o insts[ip + 1].jump)
    /\ ip' = ip + 1
    /\ UNCHANGED <<asmFile, lines, plineno, insts, lineno, symbols, nextsym,
                   hackFile, ret, apc>>
    /\ UNCHANGED notAsm

\* main: the generator is exhausted, the words are written, one per line
MainWrite ==
    /\ apc = "pass2"
    /\ ip = Len(insts)
    /\ hackFile' = [exists |-> TRUE, text |-> out]
    /\ ret' = None
    /\ apc' = "done"
    /\ UNCHANGED <<asmFile, lines, plineno, insts, lineno, symbols, nextsym, out, ip>>
    /\ UNCHANGED notAsm

NextAsm ==
    \/ MainOpen
    \/ Pass1Label
    \/ Pass1Inst
    \/ Pass1Done
    \/ Pass2Error
    \/ Pass2Const
    \/ Pass2Symbol
    \/ Pass2C
    \/ MainWrite

(***************************************************************************)
(* One C-instruction through the assembler: Parser.parse of the line, then *)
(* the word assemble yields for it or the message it raises.               *)
(***************************************************************************)
DestChoices ==
    {"", "A", "D", "M", "AD", "DA", "MD", "DM", "AM", "ADM", "MDA", "DAM",
     "ADA", "AA", "MMD", "X", "AX"}

CompChoices == DOMAIN comp \cup {"Q", "D+D", "A+D", "2", "d"}

JumpChoices == {jmp[i] : i \in 1..Len(jmp)} \cup {"JXX", "jmp", "J"}

CParts ==
    {p \in [hasEq : BOOLEAN, dest : DestChoices, comp : CompChoices,
            hasSemi : BOOLEAN, jump : JumpChoices] :
        /\ (~p.hasEq => p.dest = "")
        /\ (~p.hasSemi => p.jump = "")}

CText(p) ==
    (IF p.hasEq THEN p.dest \o "=" ELSE "") \o p.comp
    \o (IF p.hasSemi THEN ";" \o p.jump ELSE "")

Word(w) == [tag |-> "Word", word |-> w]

InitC ==
    /\ cparts \in CParts
    /\ cline = CText(cparts)
    /\ cres = None

\* Parser.parse and assemble on the one line
AssembleC ==
    /\ cres = None
    /\ LET inst == parseLine(1, strip(cline)) IN
        cres' = IF inst.tag = "Error" THEN Raised(inst.msg)
                ELSE Word("111" \o inst.comp \o inst.dest \o inst.jump)
    /\ UNCHANGED <<cparts, cline>>
    /\ UNCHANGED notC

NextC == AssembleC

(***************************************************************************)
(* src/08/VMTranslator.py: Parser.  A command is a record; a Push or Pop   *)
(* carries its segment shape and its index as text.                        *)
(***************************************************************************)
Fixed == [tag |-> "Fixed"]
Floating(base) == [tag |-> "Floating", base |-> base]
ConstSeg == [tag |-> "Const"]
Push(seg, idx) == [tag |-> "Push", seg |-> seg, idx |-> idx]
Pop(seg, idx) == [tag |-> "Pop", seg |-> seg, idx |-> idx]
UnaryOp(op) == [tag |-> "UnaryOp", op |-> op]
BinaryOp(op) == [tag |-> "BinaryOp", op |-> op]
CompOp(op) == [tag |-> "CompOp", op |-> op]
Branch(op, sym) == [tag |-> "Branch", op |-> op, symbol |-> sym]
Function(op, name, nArgs) == [tag |-> "Function", op |-> op, name |-> name, nArgs |-> nArgs]
Return == [tag |-> "Return"]
\* an exception that is not an Error command: it leaves the generator at once
Crash(msg) == [tag |-> "Crash", msg |-> msg]

RECURSIVE LStrip(_)
LStrip(s) ==
    IF Len(s) > 0 /\ Ch(s, 1) \in Whitespace THEN LStrip(SubSeq(s, 2, Len(s))) ELSE s

RECURSIVE RStrip(_)
RStrip(s) ==
    IF Len(s) > 0 /\ Ch(s, Len(s)) \in Whitespace THEN RStrip(SubSeq(s, 1, Len(s)-1)) ELSE s

\* str.strip()
Strip(s) == LStrip(RStrip(s))

RECURSIVE Split(_)
\* str.split(): the maximal runs of non-whitespace characters
Split(s) ==
    LET t == LStrip(s) IN
    IF Len(t) = 0 THEN <<>>
    ELSE LET n == IF \E i \in 1..Len(t) : Ch(t, i) \in Whitespace
                  THEN (CHOOSE i \in 1..Len(t) :
                            /\ Ch(t, i) \in Whitespace
                            /\ \A j \in 1..(i-1) : Ch(t, j) \notin Whitespace) - 1
                  ELSE Len(t)
         IN <<SubSeq(t, 1, n)>> \o Split(SubSeq(t, n+1, Len(t)))

\* the texts int() accepts: an optional sign, then digits, single
\* underscores allowed between digits
IsIntText(s) ==
    LET body == IF Len(s) > 0 /\ Ch(s, 1) \in {"+", "-"} THEN SubSeq(s, 2, Len(s)) ELSE s IN
    /\ Len(body) >= 1
    /\ AllIn(body, Digit \cup {"_"})
    /\ Ch(body, 1) # "_"
    /\ Ch(body, Len(body)) # "_"
    /\ \A i \in 1..(Len(body)-1) : ~(Ch(body, i) = "_" /\ Ch(body, i+1) = "_")

RECURSIVE DropUnderscores(_)
DropUnderscores(s) ==
    IF Len(s) = 0 THEN ""
    ELSE IF Ch(s, 1) = "_" THEN DropUnderscores(SubSeq(s, 2, Len(s)))
    ELSE Ch(s, 1) \o DropUnderscores(SubSeq(s, 2, Len(s)))

\* Parser.getInt
getInt(s) ==
    IF ~IsIntText(s) THEN -1
    ELSE IF Ch(s, 1) = "-" THEN 0 - int(DropUnderscores(SubSeq(s, 2, Len(s))))
    ELSE IF Ch(s, 1) = "+" THEN int(DropUnderscores(SubSeq(s, 2, Len(s))))
    ELSE int(DropUnderscores(s))

\* the UnboundLocalError of Parser.stack when no case binds seg
SegUnbound == Crash("cannot access local variable 'seg' where it is not associated with a value")

\* Parser.stack
stack(module, op, args) ==
    IF Len(args) # 2 THEN Error(op \o " takes 2 arguments")
    ELSE LET idx == getInt(args[2])
             make(seg, i) == IF op = "push" THEN Push(seg, i) ELSE Pop(seg, i)
         IN
         IF idx < 0 THEN Error("index must be a non-negative integer")
         ELSE CASE args[1] = "argument" -> make(Floating("ARG"), Str(idx))
                [] args[1] = "local" -> make(Floating("LCL"), Str(idx))
                [] args[1] = "static" -> make(Fixed, module \o "." \o Str(idx))
                [] args[1] = "constant" ->
                       IF op = "pop" THEN Error("you cannot pop to a constant")
                       ELSE make(ConstSeg, Str(idx))
                [] args[1] = "this" -> make(Floating("THIS"), Str(idx))
                [] args[1] = "that" -> make(Floating("THAT"), Str(idx))
                [] args[1] = "pointer" -> make(Fixed, Str(idx + 3))
                [] args[1] = "temp" -> make(Fixed, Str(idx + 5))
                [] OTHER -> SegUnbound

\* Parser.unaryOp, Parser.binaryOp, Parser.compOp
noArgs(op, args, cmd) ==
    IF Len(args) # 0 THEN Error(op \o " takes no arguments") ELSE cmd

\* Parser.branch
branch(op, args) ==
    IF Len(args) # 1 THEN Error(op \o " takes 1 argument")
    ELSE IF ~MatchLabel(args[1]) THEN Error("invalid label")
    ELSE Branch(op, args[1])

\* Parser.function
function(op, args) ==
    IF Len(args) # 2 THEN Error(op \o " takes two arguments")
    ELSE IF getInt(args[2]) < 0 THEN Error("nArgs must be a non-negative integer")
    ELSE IF ~MatchLabel(args[1]) THEN Error("invalid function name")
    ELSE Function(op, args[1], getInt(args[2]))

\* Parser.ret
retCmd(args) ==
    IF Len(args) # 0 THEN Error("return takes no arguments") ELSE Return

\* Parser.parse, the body of the loop for a non-empty line; n is lineno + 1
parseVmLine(module, n, text) ==
    LET line == Split(text)
        op == line[1]
        args == Tail(line)
        inst == CASE op \in {"push", "pop"} -> stack(module, op, args)
                  [] op \in {"neg", "not"} -> noArgs(op, args, UnaryOp(op))
                  [] op \in {"add", "sub", "and", "or"} -> noArgs(op, args, BinaryOp(op))
                  [] op \in {"eq", "lt", "gt"} -> noArgs(op, args, CompOp(op))
                  [] op \in {"label", "goto", "if-goto"} -> branch(op, args)
                  [] op \in {"function", "call"} -> function(op, args)
                  [] op = "return" -> retCmd(args)
                  [] OTHER -> Error("unknown instruction")
    IN IF inst.tag = "Error"
       THEN Error(module \o ".vm line " \o Str(n) \o ": " \o inst.msg)
       ELSE inst

RECURSIVE parseVmFrom(_, _, _)
\* Parser.parse: the commands of the lines from number n on, blank lines skipped
parseVmFrom(module, n, vmLines) ==
    IF Len(vmLines) = 0 THEN <<>>
    ELSE LET text == Strip(BeforeComment(vmLines[1])) IN
         IF Len(text) = 0 THEN parseVmFrom(module, n + 1, Tail(vmLines))
         ELSE <<parseVmLine(module, n, text)>> \o parseVmFrom(module, n + 1, Tail(vmLines))

parseVm(module, vmLines) == parseVmFrom(module, 1, vmLines)

(***************************************************************************)
(* src/08/VMTranslator.py: Translator.  A fragment of assembly is the      *)
(* sequence of its lines, each without its newline.                        *)
(***************************************************************************)
\* Translator.ops
ops(op) ==
    CASE op = "add" -> "+"
      [] op = "sub" -> "-"
      [] op = "and" -> "&"
      [] op = "or" -> "|"
      [] op = "neg" -> "-"
      [] op = "not" -> "!"
      [] op = "eq" -> "JEQ"
      [] op = "lt" -> "JLT"
      [] op = "gt" -> "JGT"

\* Translator.bootstrap
bootstrap ==
    <<"@261      ", "D=A       ", "@SP       ", "M=D       ", "@Sys.init ", "0;JMP     ">>

\* Translator.__init__
NewTranslator(module) ==
    [module |-> module, next_cmp |-> 0, next_ret |-> 0, funcname |-> "None"]

\* the common tail of Translator.push
MutPushTail == <<"@SP   ", "M=M+1 ", "A=M   ", "M=D   ">>

PushTail == <<"@SP   ", "M=M+1 ", "A=M-1 ", "M=D   ">>

\* Translator.push
push(seg, idx) ==
    (CASE seg.tag = "Floating" ->
            <<"@" \o seg.base \o " ", "D=M     ", "@" \o idx \o "  ", "A=D+A   ", "D=M     ">>
       [] seg.tag = "Fixed" -> <<"@" \o idx \o "  ", "D=M     ">>
       [] seg.tag = "Const" -> <<"@" \o idx \o "  ", "D=A     ">>)
    \o PushTail

\* Translator.push of src/07
push07(seg, idx) ==
    (CASE seg.tag = "Floating" ->
            <<"@" \o seg.base \o " ", "D=M     ", "@" \o idx \o "  ", "A=D+A   ", "D=M     ">>
       [] seg.tag = "Fixed" -> <<"@" \o idx \o "  ", "D=M     ">>
       [] seg.tag = "Const" -> <<"@" \o idx \o "  ", "D=A     ">>)
    \o <<"@SP   ", "M=M+1 ", "A=M-1 ", "M=D   ">>

\* Translator.pop with the stack pointer left as it was
MutPop(seg, idx) ==
    CASE seg.tag = "Floating" ->
            <<"@" \o seg.base \o " ", "D=M     ", "@" \o idx \o "  ", "D=D+A   ",
              "@SP     ", "A=M-1   ", "D=D+M   ", "A=D-M   ", "M=D-A   ">>
      [] seg.tag = "Fixed" ->
            <<"@SP     ", "AM=M-1  ", "D=M     ", "@" \o idx \o "  ", "M=D     ">>

\* Translator.pop
pop(seg, idx) ==
    CASE seg.tag = "Floating" ->
            <<"@" \o seg.base \o " ", "D=M     ", "@" \o idx \o "  ", "D=D+A   ",
              "@SP     ", "AM=M-1   ", "D=D+M   ", "A=D-M   ", "M=D-A   ">>
      [] seg.tag = "Fixed" ->
            <<"@SP     ", "AM=M-1  ", "D=M     ", "@" \o idx \o "  ", "M=D     ">>

\* Translator.pop of src/07
pop07(seg, idx) ==
    CASE seg.tag = "Floating" ->
            <<"@" \o seg.base \o " ", "D=M     ", "@" \o idx \o "  ", "D=D+A   ",
              "@SP     ", "M=M-1   ", "A=M     ", "D=D+M   ", "A=D-M   ", "M=D-A   ">>
      [] seg.tag = "Fixed" ->
            <<"@SP     ", "M=M-1   ", "A=M     ", "D=M     ", "@" \o idx \o "  ", "M=D     ">>

\* Translator.unaryOp
unaryOp(op) == <<"@SP     ", "A=M-1   ", "M=" \o ops(op) \o "M ">>

\* Translator.binaryOp
binaryOp(op) ==
    <<"@SP     ", "AM=M-1  ", "D=M     ", "A=A-1   ">>
    \o <<IF ops(op) = "-" THEN "M=M-D     " ELSE "M=D" \o ops(op) \o "M ">>

\* the label Translator.compOp makes from the counter it has just advanced
compLabel(module, op, n) == module \o "$" \o op \o "." \o Str(n)

\* Translator.compOp, the text
compOp(op, lbl) ==
    <<"@SP       ", "AM=M-1    ", "D=M       ", "A=A-1     ", "D=M-D     ",
      "M=-1      ", "@" \o lbl \o "  ", "D;" \o ops(op) \o "    ", "@SP       ",
      "A=M-1     ", "M=0       ", "(" \o lbl \o ") ">>

\* Translator.makeLabel
makeLabel(funcname, sym) == funcname \o "$" \o sym

\* Translator.label
label(funcname, sym) == <<"(" \o makeLabel(funcname, sym) \o ") ">>

\* Translator.goto
goto(funcname, sym) == <<"@" \o makeLabel(funcname, sym) \o " ", "0;JMP    ">>

\* Translator.ifGoto
ifGoto(funcname, sym) ==
    <<"@SP      ", "AM=M-1   ", "D=M      ", "@" \o makeLabel(funcname, sym) \o " ",
      "D;JNE    ">>

RECURSIVE Repeat(_, _)
\* seq * n
Repeat(seq, n) == IF n <= 0 THEN <<>> ELSE seq \o Repeat(seq, n - 1)

\* how often Translator.function repeats the push of a zero
MutLocalsPushed(nArgs) == IF nArgs > 0 THEN nArgs - 1 ELSE 0

LocalsPushed(nArgs) == nArgs

\* Translator.function, the text
functionText(name, nArgs) ==
    <<"(" \o name \o ") ">>
    \o Repeat(<<"@SP   ", "M=M+1 ", "A=M-1 ", "M=0   ">>, LocalsPushed(nArgs))

\* the constant Translator.call subtracts from the address of the last saved cell
MutArgOffset(nArgs) == 5 + nArgs

ArgOffset(nArgs) == 4 + nArgs

\* Translator.call, the text
callText(retLabel, name, nArgs) ==
    <<"@" \o retLabel \o "     ", "D=A        ", "@SP        ", "M=M+1      ",
      "A=M-1      ", "M=D        ",
      "@LCL       ", "D=M        ", "@SP        ", "M=M+1      ",
      "A=M-1      ", "M=D        ",
      "@ARG       ", "D=M        ", "@SP        ", "M=M+1      ",
      "A=M-1      ", "M=D        ",
      "@THIS      ", "D=M        ", "@SP        ", "M=M+1      ",
      "A=M-1      ", "M=D        ",
      "@THAT      ", "D=M        ", "@SP        ", "M=M+1      ",
      "A=M-1      ", "M=D        ",
      "D=A        ", "@" \o Str(ArgOffset(nArgs)) \o " ", "D=D-A      ",
      "@ARG       ", "M=D        ", "@SP        ", "D=M        ",
      "@LCL       ", "M=D        ", "@" \o name \o "    ", "0;JMP      ",
      "(" \o retLabel \o ")    ">>

\* how far below the frame Translator.ret finds the return address
MutRetAddrOffset == "4"

RetAddrOffset == "5"

\* Translator.ret
retText ==
    <<"@LCL   ", "D=M    ", "@R13   ", "M=D    ", "@" \o RetAddrOffset \o "     ",
      "A=D-A  ", "D=M    ",
      "@R14   ", "M=D    ", "@SP    ", "A=M-1  ", "D=M    ", "@ARG   ", "A=M    ",
      "M=D    ", "D=A    ", "@SP    ", "M=D+1  ",
      "@R13   ", "AM=M-1 ", "D=M    ", "@THAT  ", "M=D    ",
      "@R13   ", "AM=M-1 ", "D=M    ", "@THIS  ", "M=D    ",
      "@R13   ", "AM=M-1 ", "D=M    ", "@ARG   ", "M=D    ",
      "@R13   ", "AM=M-1 ", "D=M    ", "@LCL   ", "M=D    ",
      "@R14   ", "A=M    ", "0;JMP  ">>

\* Translator.translate, the body of the loop for one command that is not an
\* Error: the translator after it and the fragment it yields
translateCmd(t, cmd) ==
    CASE cmd.tag = "Push" -> [t |-> t, text |-> push(cmd.seg, cmd.idx)]
      [] cmd.tag = "Pop" -> [t |-> t, text |-> pop(cmd.seg, cmd.idx)]
      [] cmd.tag = "UnaryOp" -> [t |-> t, text |-> unaryOp(cmd.op)]
      [] cmd.tag = "BinaryOp" -> [t |-> t, text |-> binaryOp(cmd.op)]
      [] cmd.tag = "CompOp" ->
            [t |-> [t EXCEPT !.next_cmp = @ + 1],
             text |-> compOp(cmd.op, compLabel(t.module, cmd.op, t.next_cmp + 1))]
      [] cmd.tag = "Branch" /\ cmd.op = "label" ->
            [t |-> t, text |-> label(t.funcname, cmd.symbol)]
      [] cmd.tag = "Branch" /\ cmd.op = "goto" ->
            [t |-> t, text |-> goto(t.funcname, cmd.symbol)]
      [] cmd.tag = "Branch" /\ cmd.op = "if-goto" ->
            [t |-> t, text |-> ifGoto(t.funcname, cmd.symbol)]
      [] cmd.tag = "Function" /\ cmd.op = "function" ->
            [t |-> [t EXCEPT !.funcname = cmd.name, !.next_ret = 0],
             text |-> functionText(cmd.name, cmd.nArgs)]
      [] cmd.tag = "Function" /\ cmd.op = "call" ->
            [t |-> [t EXCEPT !.next_ret = @ + 1],
             text |-> callText(makeLabel(t.funcname, "ret." \o Str(t.next_ret + 1)),
                               cmd.name, cmd.nArgs)]
      [] cmd.tag = "Return" -> [t |-> t, text |-> retText]

(***************************************************************************)
(* src/08/VMTranslator.py: main, one step per command.                     *)
(***************************************************************************)
NoFile == [exists |-> FALSE, text |-> <<>>]

VmIdle ==
    /\ vmFiles = <<>>
    /\ vmIsDir = FALSE
    /\ tmpFile = NoFile
    /\ asmOut = NoFile
    /\ vret = None
    /\ fidx = 0
    /\ cmds = <<>>
    /\ tr = NewTranslator("")
    /\ vpc = "idle"

\* main before the run, for the given argument
VmStart(files, isDir) ==
    /\ vmFiles = files
    /\ vmIsDir = isDir
    /\ tmpFile = NoFile
    /\ asmOut = NoFile
    /\ vret = None
    /\ fidx = 0
    /\ cmds = <<>>
    /\ tr = NewTranslator("")
    /\ vpc = "start"

\* what main writes before the first module
MutPreamble(isDir) == <<>>

Preamble(isDir) == bootstrap

\* main: the temporary file is created and the bootstrap written to it
VmMainStart ==
    /\ vpc = "start"
    /\ tmpFile' = [exists |-> TRUE, text |-> Preamble(vmIsDir)]
    /\ vpc' = "files"
    /\ UNCHANGED <<vmFiles, vmIsDir, asmOut, vret, fidx, cmds, tr>>
    /\ UNCHANGED notVm

\* main: the next file gets a Parser and a Translator of its own
VmOpenModule ==
    /\ vpc = "files"
    /\ cmds = <<>>
    /\ fidx < Len(vmFiles)
    /\ fidx' = fidx + 1
    /\ cmds' = parseVm(vmFiles[fidx + 1].module, vmFiles[fidx + 1].lines)
    /\ tr' = NewTranslator(vmFiles[fidx + 1].module)
    /\ UNCHANGED <<vmFiles, vmIsDir, tmpFile, asmOut, vret, vpc>>
    /\ UNCHANGED notVm

\* Translator.translate: one command, its fragment written to the temporary file
VmTranslate ==
    /\ vpc = "files"
    /\ cmds # <<>>
    /\ Head(cmds).tag \notin {"Error", "Crash"}
    /\ LET r == translateCmd(tr, Head(cmds)) IN
        /\ tr' = r.t
        /\ tmpFile' = [tmpFile EXCEPT !.text = @ \o r.text]
    /\ cmds' = Tail(cmds)
    /\ UNCHANGED <<vmFiles, vmIsDir, asmOut, vret, fidx, vpc>>
    /\ UNCHANGED notVm

\* Translator.translate raises on an Error command (or the parser has
\* crashed): main removes the temporary file and returns the message
VmRaise ==
    /\ vpc = "files"
    /\ cmds # <<>>
    /\ Head(cmds).tag \in {"Error", "Crash"}
    /\ tmpFile' = NoFile
    /\ vret' = Raised(Head(cmds).msg)
    /\ vpc' = "done"
    /\ UNCHANGED <<vmFiles, vmIsDir, asmOut, fidx, cmds, tr>>
    /\ UNCHANGED notVm

\* main: every file is translated, the temporary file becomes the .asm file
VmMainFinish ==
    /\ vpc = "files"
    /\ cmds = <<>>
    /\ fidx = Len(vmFiles)
    /\ asmOut' = [exists |-> TRUE, text |-> tmpFile.text]
    /\ tmpFile' = NoFile
    /\ vret' = None
    /\ vpc' = "done"
    /\ UNCHANGED <<vmFiles, vmIsDir, fidx, cmds, tr>>
    /\ UNCHANGED notVm

NextVm ==
    \/ VmMainStart
    \/ VmOpenModule
    \/ VmTranslate
    \/ VmRaise
    \/ VmMainFinish

(***************************************************************************)
(* The Hack machine, as its platform specification defines it, running     *)
(* what the assembler made of the translator's output.                     *)
(***************************************************************************)
Word16 == 65536

\* the value of a string of bits
RECURSIVE BinValue(_)
BinValue(w) ==
    IF Len(w) = 0 THEN 0
    ELSE 2 * BinValue(SubSeq(w, 1, Len(w)-1)) + (IF Ch(w, Len(w)) = "1" THEN 1 ELSE 0)

\* the content of a data memory cell nothing has written yet
RamDefault(a) == (a * 7 + 1000) % Word16

Rd(mem, a) == IF a \in DOMAIN mem THEN mem[a] ELSE RamDefault(a)

Wr(mem, a, v) == (a :> v) @@ mem

\* the memory chip is addressed by the low 15 bits of A
Addr(a) == a % 32768

RECURSIVE And16(_, _)
And16(x, y) ==
    IF x = 0 \/ y = 0 THEN 0
    ELSE (x % 2) * (y % 2) + 2 * And16(x \div 2, y \div 2)

Not16(x) == Word16 - 1 - x

\* the ALU: c is the six control bits zx nx zy ny f no
Alu(x0, y0, c) ==
    LET x1 == IF Ch(c, 1) = "1" THEN 0 ELSE x0
        x2 == IF Ch(c, 2) = "1" THEN Not16(x1) ELSE x1
        y1 == IF Ch(c, 3) = "1" THEN 0 ELSE y0
        y2 == IF Ch(c, 4) = "1" THEN Not16(y1) ELSE y1
        o1 == IF Ch(c, 5) = "1" THEN (x2 + y2) % Word16 ELSE And16(x2, y2)
    IN IF Ch(c, 6) = "1" THEN Not16(o1) ELSE o1

\* does a C-instruction with jump bits j jump on ALU output o
Jumps(j, o) ==
    \/ Ch(j, 1) = "1" /\ o >= 32768
    \/ Ch(j, 2) = "1" /\ o = 0
    \/ Ch(j, 3) = "1" /\ o > 0 /\ o < 32768

HackOff ==
    /\ rom = <<>>
    /\ regA = 0
    /\ regD = 0
    /\ PC = 0
    /\ ram = <<>>
    /\ ram0 = <<>>
    /\ hpc = "off"

\* the Jack compiler is not run
JackIdle ==
    /\ jackFiles = <<>>
    /\ classes = <<>>
    /\ syms = <<>>
    /\ jout = <<>>
    /\ jret = None
    /\ jci = 0
    /\ jsi = 0
    /\ jpc = "idle"

\* the lexer is not run on its own
LexIdle ==
    /\ lexLines = <<>>
    /\ lexToks = <<>>
    /\ lexExc = None
    /\ lpc = "idle"

\* the values tried for the two words at the top of the stack
V16 == {0, 1, 3, 32767, 32768, 65535}

\* the data memories a program is started with: the cells of the pointers
\* and of the two words under the bootstrap's stack pointer
RamChoices ==
    {(0 :> 0) @@ (1 :> 300) @@ (2 :> 400) @@ (3 :> 3000) @@ (4 :> 4000)
        @@ (259 :> x) @@ (260 :> y) : x \in V16, y \in V16}

\* the .asm file the translator has written is handed to the assembler
Handoff ==
    /\ vpc = "done"
    /\ vret = None
    /\ apc = "idle"
    /\ asmFile' = asmOut.text
    /\ apc' = "start"
    /\ UNCHANGED <<lines, plineno, insts, lineno, symbols, nextsym, out, hackFile, ret, ip>>
    /\ UNCHANGED notAsm

\* the .hack file is loaded into the instruction memory and the machine reset
HackLoad ==
    /\ apc = "done"
    /\ ret = None
    /\ hpc = "off"
    /\ rom' = hackFile.text
    /\ ram' \in RamChoices
    /\ ram0' = ram'
    /\ regA' = 0
    /\ regD' = 0
    /\ PC' = 0
    /\ hpc' = "run"
    /\ UNCHANGED notHack

\* an A-instruction: 0 and a 15-bit value
HackStepA ==
    /\ hpc = "run"
    /\ PC < Len(rom)
    /\ Ch(rom[PC + 1], 1) = "0"
    /\ regA' = BinValue(SubSeq(rom[PC + 1], 2, 16))
    /\ PC' = PC + 1
    /\ UNCHANGED <<rom, regD, ram, ram0, hpc>>
    /\ UNCHANGED notHack

\* a C-instruction: 111 a cccccc ddd jjj
HackStepC ==
    /\ hpc = "run"
    /\ PC < Len(rom)
    /\ Ch(rom[PC + 1], 1) = "1"
    /\ LET w == rom[PC + 1]
           y == IF Ch(w, 4) = "1" THEN Rd(ram, Addr(regA)) ELSE regA
           o == Alu(regD, y, SubSeq(w, 5, 10))
       IN /\ regA' = IF Ch(w, 11) = "1" THEN o ELSE regA
          /\ regD' = IF Ch(w, 12) = "1" THEN o ELSE regD
          /\ ram' = IF Ch(w, 13) = "1" THEN Wr(ram, Addr(regA), o) ELSE ram
          /\ PC' = IF Jumps(SubSeq(w, 14, 16), o) THEN regA ELSE PC + 1
    /\ UNCHANGED <<rom, ram0, hpc>>
    /\ UNCHANGED notHack

NextHack ==
    \/ NextVm
    \/ Handoff
    \/ NextAsm
    \/ HackLoad
    \/ HackStepA
    \/ HackStepC

(***************************************************************************)
(* The programs the toolchain is run on.                                   *)
(***************************************************************************)
MaxArgs == 2
MaxLocals == 2

Halt == <<"label END", "goto END">>

SysInit(body) == <<"function Sys.init 0">> \o body \o Halt

PushArgs(n) == [i \in 1..n |-> "push constant " \o Str(10 + i)]

\* Sys.init with one push
PushPrograms ==
    {SysInit(<<"push " \o seg \o " " \o Str(i)>>) :
        seg \in {"argument", "local", "static", "this", "that", "temp"}, i \in 0..2}
    \cup {SysInit(<<"push pointer " \o Str(i)>>) : i \in 0..1}
    \cup {SysInit(<<"push constant " \o Str(i)>>) : i \in {0, 7, 32767, 40000}}

\* Sys.init with one comparison of the two words under the stack pointer
CompPrograms == {SysInit(<<op>>) : op \in {"eq", "lt", "gt"}}

\* the callee overwrites THIS and THAT and returns a constant
CalleeBody ==
    <<"push constant 9", "pop pointer 0", "push constant 8", "pop pointer 1",
      "push constant 77", "return">>

\* Sys.init pushes n arguments and calls Sys.f, which has k locals
CallPrograms ==
    {SysInit(PushArgs(n) \o <<"call Sys.f " \o Str(n)>>)
        \o <<"function Sys.f " \o Str(k)>> \o CalleeBody :
        n \in 0..MaxArgs, k \in 0..MaxLocals}

BadPrograms == {SysInit(<<"pop constant 0">>)}

HackPrograms == PushPrograms \cup CompPrograms \cup CallPrograms \cup BadPrograms

MaxCmds == 3

\* no `label` or `function` line occurs twice in the program
NoRepeatedName(prog) ==
    \A i, j \in 1..Len(prog) :
        (i # j /\ prog[i] = prog[j]) => Split(prog[i])[1] \notin {"label", "function"}

\* the commands module A is made of after its `function f 0`
CmdChoices ==
    {"label L", "label ret.1", "goto L", "call g 0", "call f 1", "eq", "lt",
     "pop constant 0"}

ModuleA ==
    {<<"function f 0">> \o body :
        body \in {b \in UNION {[1..n -> CmdChoices] : n \in 0..MaxCmds} : NoRepeatedName(b)}}

ModuleB ==
    {<<"function g 1", "eq", "call f 0", "if-goto L", "label L", "return">>}

\* a single file A.vm, or a directory with A.vm alone or with A.vm and B.vm
VmInputs ==
    {<<[module |-> "A", lines |-> a]>> : a \in ModuleA}
    \cup {<<[module |-> "A", lines |-> a], [module |-> "B", lines |-> b]>> :
              a \in ModuleA, b \in ModuleB}

(***************************************************************************)
(* Specifications.                                                         *)
(***************************************************************************)
vars == <<asmVars, cVars, vmVars, hackVars, jackVars, lexVars>>

InitSpecAsm == InitAsm /\ CIdle /\ VmIdle /\ HackOff /\ JackIdle /\ LexIdle

\* the assembler on the files of AsmFiles
SpecAsm == InitSpecAsm /\ [][NextAsm]_vars

InitSpecC == InitC /\ AsmIdle /\ VmIdle /\ HackOff /\ JackIdle /\ LexIdle

\* the assembler on one C-instruction
SpecC == InitSpecC /\ [][NextC]_vars

InitSpecVm ==
    /\ \E files \in VmInputs, isDir \in BOOLEAN :
          /\ (~isDir => Len(files) = 1)
          /\ VmStart(files, isDir)
    /\ AsmIdle
    /\ CIdle
    /\ HackOff
    /\ LexIdle
    /\ JackIdle

\* the VM translator on the inputs of VmInputs
SpecVm == InitSpecVm /\ [][NextVm]_vars

InitSpecHack ==
    /\ \E prog \in HackPrograms : VmStart(<<[module |-> "Sys", lines |-> prog]>>, TRUE)
    /\ AsmIdle
    /\ CIdle
    /\ HackOff
    /\ LexIdle
    /\ JackIdle

\* translator, assembler and machine in a row
SpecHack == InitSpecHack /\ [][NextHack]_vars

(***************************************************************************)
(* Claims about the assembler.                                             *)
(***************************************************************************)
IsReal(line) == Ch(line, 1) # "("

IsLabelLine(line) == Ch(line, 1) = "("

Accepted == apc = "done" /\ ret = None

Operand(line) == SubSeq(line, 2, Len(line))

LabelName(line) == SubSeq(line, 2, Len(line) - 1)

\* C1: for an accepted input there is exactly one word per A- or
\* C-instruction and none for a label line, every word is 16 characters of
\* '0'/'1', and the k-th word belongs to the k-th instruction of the source
\* (an A word starts with 0, a C word with 1, a numeric @n has the value n);
\* the file holds these words, one per line.
C1_OneWordPerInstruction ==
    Accepted =>
        LET src == stripAll(asmFile)
            real == SelectSeq(src, IsReal)
        IN  /\ Len(out) = Len(real)
            /\ \A k \in 1..Len(out) :
                /\ Len(out[k]) = 16
                /\ AllIn(out[k], {"0", "1"})
                /\ (Ch(out[k], 1) = "0") <=> (Ch(real[k], 1) = "@")
                /\ (Ch(real[k], 1) = "@" /\ MatchConst(Operand(real[k])))
                       => BinValue(out[k]) = int(Operand(real[k]))
            /\ hackFile = [exists |-> TRUE, text |-> out]

C1_Witness ==
    /\ Accepted
    /\ Len(out) = 3
    /\ Len(stripAll(asmFile)) = 4
    /\ Ch(out[1], 1) = "1"
    /\ out[3] = "0000000000000010"

\* the label lines of a source
LabelLines(src) == {p \in 1..Len(src) : IsLabelLine(src[p])}

\* the number of A/C instructions before line p of the source
AddrAt(src, p) == Cardinality({q \in 1..(p-1) : IsReal(src[q])})

\* the instructions (counted without the label lines) that are @s
RefsTo(real, s) == {k \in 1..Len(real) : real[k] = "@" \o s}

\* the last line that defines the label s
LastDef(src, s) ==
    CHOOSE p \in LabelLines(src) :
        /\ LabelName(src[p]) = s
        /\ \A q \in LabelLines(src) : LabelName(src[q]) = s => q <= p

\* C2 as stated: every definition (SYM) binds SYM to the number of
\* instructions before it, and every @SYM is encoded with that address.
C2_EveryDefinitionBinds ==
    Accepted =>
        LET src == stripAll(asmFile)
            real == SelectSeq(src, IsReal)
        IN  \A p \in LabelLines(src) :
                /\ symbols[LabelName(src[p])] = AddrAt(src, p)
                /\ \A k \in RefsTo(real, LabelName(src[p])) :
                       out[k] = Format(AddrAt(src, p), 16)

\* C2 amended: the LAST definition (SYM) of a symbol binds it to the number
\* of A/C instructions before that line; every @SYM, before or after it, is
\* encoded with that address, and pass 2 never rebinds SYM to a data address.
C2_LastDefinitionBinds ==
    apc \in {"pass2", "done"} =>
        LET src == stripAll(asmFile)
            real == SelectSeq(src, IsReal)
        IN  \A p \in LabelLines(src) :
                LET s == LabelName(src[p])
                    addr == AddrAt(src, LastDef(src, s))
                IN  /\ symbols[s] = addr
                    /\ Accepted => \A k \in RefsTo(real, s) : out[k] = Format(addr, 16)

\* a reference before the label it names, the label not at address 0
C2_Witness ==
    /\ Accepted
    /\ LET src == stripAll(asmFile) IN
        /\ Len(src) = 4
        /\ src[1] = "@LOOP"
        /\ src[3] = "(LOOP)"
        /\ src[4] = "@LOOP"
    /\ out[1] = "0000000000000010"
    /\ out[3] = "0000000000000010"

\* the references pass 2 has to allocate for: not predefined, not a label
VarRefs(src, real) ==
    {k \in 1..Len(real) :
        /\ Ch(real[k], 1) = "@"
        /\ ~MatchConst(Operand(real[k]))
        /\ Operand(real[k]) \notin DOMAIN SYMBOLS
        /\ \A p \in LabelLines(src) : LabelName(src[p]) # Operand(real[k])}

\* C3: the k-th distinct symbol that is neither predefined nor a label gets
\* address 16 + (k - 1) in order of first reference, every reference to it
\* is encoded with that address, and nothing else advances nextsym.
C3_VariablesFromSixteen ==
    Accepted =>
        LET src == stripAll(asmFile)
            real == SelectSeq(src, IsReal)
            refs == VarRefs(src, real)
            names == {Operand(real[k]) : k \in refs}
            FirstRef(s) == CHOOSE k \in refs :
                               /\ Operand(real[k]) = s
                               /\ \A m \in refs : Operand(real[m]) = s => k <= m
            Rank(s) == Cardinality({t \in names : FirstRef(t) <= FirstRef(s)})
        IN  /\ \A k \in refs :
                /\ out[k] = Format(16 + Rank(Operand(real[k])) - 1, 16)
                /\ symbols[Operand(real[k])] = 16 + Rank(Operand(real[k])) - 1
            /\ nextsym = 16 + Cardinality(names)

\* two variables, the first referenced again after the second, and
\* a predefined symbol in between
C3_Witness ==
    /\ Accepted
    /\ stripAll(asmFile) = <<"@i", "@SP", "@LOOP", "@i">>
    /\ out = <<"0000000000010000", "0000000000000000", "0000000000010001",
               "0000000000010000">>
    /\ nextsym = 18

JumpCode(j) ==
    CASE j = "" -> "000"
      [] j = "JGT" -> "001"
      [] j = "JEQ" -> "010"
      [] j = "JGE" -> "011"
      [] j = "JLT" -> "100"
      [] j = "JNE" -> "101"
      [] j = "JLE" -> "110"
      [] j = "JMP" -> "111"

HasLetter(d, c) == \E i \in 1..Len(d) : Ch(d, i) = c

Repeats(d) == \E i, j \in 1..Len(d) : i # j /\ Ch(d, i) = Ch(d, j)

WellFormedDest(p) ==
    ~p.hasEq \/ (Len(p.dest) >= 1 /\ AllIn(p.dest, {"A", "D", "M"}) /\ ~Repeats(p.dest))

KnownJump(j) == j \in {"", "JGT", "JEQ", "JGE", "JLT", "JNE", "JLE", "JMP"}

Bit(b) == IF b THEN "1" ELSE "0"

\* C4: a C-instruction with a comp of the table, a dest without a repeated
\* letter and a known jump becomes 111 + comp code + the A, D, M mask + the
\* jump code; a repeated dest letter, an unknown comp or an unknown jump is
\* an error.
C4_CInstructionWord ==
    cres # None =>
        /\ (cparts.comp \in DOMAIN comp /\ WellFormedDest(cparts) /\ KnownJump(cparts.jump))
              => cres = Word("111" \o comp[cparts.comp]
                             \o Bit(HasLetter(cparts.dest, "A"))
                             \o Bit(HasLetter(cparts.dest, "D"))
                             \o Bit(HasLetter(cparts.dest, "M"))
                             \o JumpCode(cparts.jump))
        /\ (Repeats(cparts.dest) \/ cparts.comp \notin DOMAIN comp \/ ~KnownJump(cparts.jump))
              => cres.tag = "Err"

C4_Witness ==
    /\ cline = "MD=D+1;JLE"
    /\ cres = Word("1110011111011110")

\* C5, the assembler's half: after an error no output file exists.
C5_NoOutputAfterError ==
    (apc = "done" /\ ret.tag = "Err") => ~hackFile.exists

(***************************************************************************)
(* Claims about the code the VM translator emits, run on the Hack machine. *)
(***************************************************************************)
ProgLines == vmFiles[1].lines

\* the first word of line i of the program
OpOf(i) == Split(ProgLines[i])[1]

\* the machine is at the instruction the label names
AtLabel(name) == hpc = "run" /\ name \in DOMAIN symbols /\ PC = symbols[name]

\* the stack pointer the bootstrap sets
BootSP == 261

IsPushProgram == Len(ProgLines) = 4 /\ OpOf(2) = "push"

\* the word `push seg i` has to push, read from the memory m before the push
PushedValue(m, seg, i) ==
    CASE seg = "constant" -> i
      [] seg = "argument" -> Rd(m, Addr(Rd(m, 2) + i))
      [] seg = "local" -> Rd(m, Addr(Rd(m, 1) + i))
      [] seg = "this" -> Rd(m, Addr(Rd(m, 3) + i))
      [] seg = "that" -> Rd(m, Addr(Rd(m, 4) + i))
      [] seg = "pointer" -> Rd(m, 3 + i)
      [] seg = "temp" -> Rd(m, 5 + i)
      [] seg = "static" -> Rd(m, 16)

\* both memories agree outside the cells of `except`
SameExcept(m1, m2, except) ==
    \A a \in (DOMAIN m1 \cup DOMAIN m2) \ except : Rd(m1, a) = Rd(m2, a)

\* C6: `push constant i` is translated to exactly @i, D=A, @SP, M=M+1,
\* A=M-1, M=D (src/07 and src/08 emit the same text for every push), and
\* running any push stores the pushed value at the old RAM[SP], adds 1 to SP
\* and changes no other cell.
C6_PushEffect ==
    IsPushProgram =>
        LET seg == Split(ProgLines[2])[2]
            i == getInt(Split(ProgLines[2])[3])
            cmd == parseVm("Sys", <<ProgLines[2]>>)[1]
        IN  /\ (vpc = "done" /\ seg = "constant") =>
                   stripAll(SubSeq(asmOut.text, 8, Len(asmOut.text) - 3))
                       = <<"@" \o Str(i), "D=A", "@SP", "M=M+1", "A=M-1", "M=D">>
            /\ vpc = "done" => push07(cmd.seg, cmd.idx) = push(cmd.seg, cmd.idx)
            /\ AtLabel("Sys.init$END") =>
                   /\ Rd(ram, BootSP) = PushedValue(ram0, seg, i)
                   /\ Rd(ram, 0) = BootSP + 1
                   /\ SameExcept(ram, ram0, {0, BootSP})

C6_Witness ==
    /\ IsPushProgram
    /\ ProgLines[2] = "push that 2"
    /\ AtLabel("Sys.init$END")
    /\ Rd(ram, BootSP) = RamDefault(4002)
    /\ Rd(ram, 0) = 262

IsCompProgram == Len(ProgLines) = 4 /\ OpOf(2) \in {"eq", "lt", "gt"}

\* a 16-bit word as the signed number it stands for
Signed(w) == IF w >= 32768 THEN w - Word16 ELSE w

Holds(op, x, y) ==
    CASE op = "eq" -> Signed(x) = Signed(y)
      [] op = "lt" -> Signed(x) < Signed(y)
      [] op = "gt" -> Signed(x) > Signed(y)

\* C7: for all 16-bit x (pushed first) and y, the code of eq, lt and gt
\* takes 1 from SP and leaves -1 at the new top when x op y holds for the
\* signed values, 0 otherwise.
C7_SignedComparison ==
    (IsCompProgram /\ AtLabel("Sys.init$END")) =>
        /\ Rd(ram, 0) = BootSP - 1
        /\ Rd(ram, BootSP - 2) =
               IF Holds(OpOf(2), Rd(ram0, BootSP - 2), Rd(ram0, BootSP - 1))
               THEN 65535 ELSE 0

\* the lines of a call program but its pushes of arguments: function
\* Sys.init, call, label, goto, function Sys.f and the callee's body
CallFixedLines == 5 + Len(CalleeBody)

IsCallProgram ==
    /\ Len(ProgLines) >= CallFixedLines
    /\ OpOf(Len(ProgLines) - Len(CalleeBody) - 3) = "call"

CallArgs == Len(ProgLines) - CallFixedLines

CallLocals == getInt(Split(ProgLines[Len(ProgLines) - Len(CalleeBody)])[3])

\* the stack pointer when the call begins
PreSP == BootSP + CallArgs

\* the address of the instruction after the 41 instructions of the call
AfterCall == 6 + 6 * CallArgs + 41

\* C8: after `call f n` and the callee's `return`, for n = 0 too, control is
\* at the return label (the jump that ends the callee's `return`, the last
\* instruction of the program, goes there), LCL, ARG, THIS and THAT are what
\* they were before the call, SP is the SP before the call minus n plus 1
\* and the return value is on top.
C8_CallReturn ==
    /\ (IsCallProgram /\ hpc = "run" /\ PC = Len(rom) - 1) => regA = AfterCall
    /\ (IsCallProgram /\ hpc = "run" /\ PC = AfterCall) =>
        /\ symbols["Sys.init$ret.1"] = AfterCall
        /\ Rd(ram, 1) = Rd(ram0, 1)
        /\ Rd(ram, 2) = Rd(ram0, 2)
        /\ Rd(ram, 3) = Rd(ram0, 3)
        /\ Rd(ram, 4) = Rd(ram0, 4)
        /\ Rd(ram, 0) = PreSP - CallArgs + 1
        /\ Rd(ram, Rd(ram, 0) - 1) = 77

\* the return of a call without arguments, whose return value takes the
\* cell of the saved return address
C8_Witness ==
    /\ IsCallProgram
    /\ CallArgs = 0
    /\ hpc = "run"
    /\ PC = AfterCall
    /\ Rd(ram, 0) = 262
    /\ Rd(ram, 261) = 77
    /\ Rd(ram, 1) = 300

\* C9: after `call f n` and the prologue of `function f k` the five cells
\* from the old SP hold the return address and the caller's LCL, ARG, THIS,
\* THAT; ARG is the old SP minus n, LCL the old SP plus 5, the k locals are
\* 0 and SP is LCL + k.
C9_CallFrame ==
    (IsCallProgram /\ hpc = "run" /\ PC = symbols["Sys.f"] + 4 * CallLocals) =>
        /\ Rd(ram, PreSP) = AfterCall
        /\ Rd(ram, PreSP + 1) = Rd(ram0, 1)
        /\ Rd(ram, PreSP + 2) = Rd(ram0, 2)
        /\ Rd(ram, PreSP + 3) = Rd(ram0, 3)
        /\ Rd(ram, PreSP + 4) = Rd(ram0, 4)
        /\ Rd(ram, 2) = PreSP - CallArgs
        /\ Rd(ram, 1) = PreSP + 5
        /\ \A j \in 0..(CallLocals - 1) : Rd(ram, PreSP + 5 + j) = 0
        /\ Rd(ram, 0) = PreSP + 5 + CallLocals

C9_Witness ==
    /\ IsCallProgram
    /\ CallArgs = 2
    /\ CallLocals = 2
    /\ hpc = "run"
    /\ PC = symbols["Sys.f"] + 8
    /\ Rd(ram, 0) = 270
    /\ Rd(ram, 1) = 268
    /\ Rd(ram, 2) = 261
    /\ Rd(ram, 268) = 0
    /\ Rd(ram, 269) = 0
    /\ RamDefault(268) # 0

(***************************************************************************)
(* Claims about the labels the VM translator emits.                        *)
(***************************************************************************)
\* the label definitions (X) of an assembly text, in order
LabelDefs(text) == SelectSeq([i \in 1..Len(text) |-> strip(text[i])], IsLabelLine)

\* C10: in the output of an accepted translation, over one module or
\* several, no label definition (X) occurs twice.
C10_LabelsDistinct ==
    (vpc = "done" /\ vret = None) =>
        LET defs == LabelDefs(asmOut.text) IN
        \A i, j \in 1..Len(defs) : i # j => defs[i] # defs[j]

(***************************************************************************)
(* Claims about the bootstrap the VM translator writes.                    *)
(***************************************************************************)
\* the six lines of the bootstrap stand at line i of the text
HasBootstrapAt(text, i) ==
    /\ i + Len(bootstrap) - 1 <= Len(text)
    /\ SubSeq(text, i, i + Len(bootstrap) - 1) = bootstrap

\* C11: for a directory the output begins with exactly one bootstrap
\* (SP = 261, jump to Sys.init) before the code of every module; for a
\* single .vm file the output holds no bootstrap.
C11_BootstrapOnlyForDirectory ==
    (vpc = "done" /\ vret = None) =>
        IF vmIsDir
        THEN /\ HasBootstrapAt(asmOut.text, 1)
             /\ \A i \in 2..Len(asmOut.text) : ~HasBootstrapAt(asmOut.text, i)
        ELSE \A i \in 1..Len(asmOut.text) : ~HasBootstrapAt(asmOut.text, i)

(***************************************************************************)
(* Claims about the errors of the VM parser.                               *)
(***************************************************************************)
MaxVmLines == 3

\* lines the parser has to refuse: unknown opcode, wrong number of
\* arguments, unknown segment, negative index, index that is no integer,
\* pop to constant
BadVmLines ==
    {"frob", "push local", "add 1", "push foo 0", "push local -1", "push local x",
     "pop constant 3"}

VmLineChoices == {"", "  // note", "push constant 1"} \cup BadVmLines

VmErrInputs == UNION {[1..n -> VmLineChoices] : n \in 1..MaxVmLines}

InitSpecVmErr ==
    /\ \E text \in VmErrInputs : VmStart(<<[module |-> "A", lines |-> text]>>, FALSE)
    /\ AsmIdle
    /\ CIdle
    /\ HackOff
    /\ LexIdle
    /\ JackIdle

\* the VM translator on one file A.vm with lines it has to refuse
SpecVmErr == InitSpecVmErr /\ [][NextVm]_vars

StartsWith(s, prefix) ==
    Len(s) >= Len(prefix) /\ SubSeq(s, 1, Len(prefix)) = prefix

\* the number of the first line of the file the parser has to refuse, 0 if none
FirstBad(text) ==
    IF \E n \in 1..Len(text) : text[n] \in BadVmLines
    THEN CHOOSE n \in 1..Len(text) :
             /\ text[n] \in BadVmLines
             /\ \A k \in 1..(n - 1) : text[k] \notin BadVmLines
    ELSE 0

\* C12: a line with an unknown opcode, a wrong number of arguments, an
\* unknown segment, a negative or non-integer index, or `pop constant i`
\* makes the translation end with a message that starts with
\* `<module>.vm line N:`, N the 1-based number of the line in the file, blank
\* and comment lines counted.
C12_ErrorNamesModuleAndLine ==
    LET text == vmFiles[1].lines
        n == FirstBad(text)
    IN (vpc = "done" /\ Len(vmFiles) = 1 /\ vmFiles[1].module = "A" /\ n > 0) =>
           /\ vret.tag = "Err"
           /\ StartsWith(vret.msg, "A.vm line " \o Str(n) \o ":")

(***************************************************************************)
(* src/11/jack_parser/_lexer.py.  A Tok is modelled by its value, a        *)
(* string; a token is a record.  An exception raised by the generator of   *)
(* tokens stands in the sequence as a token of type "raise", which the     *)
(* parser meets when it reads that far.                                    *)
(***************************************************************************)
\* the values of the members of Tok
Tok ==
    {"stringConstant", "identifier", "integerConstant", "EOF",
     "{", "}", "[", "]", "(", ")", ".", ",", ";", "+", "-", "*", "/", "&", "|",
     "~", "<", ">", "=",
     "class", "constructor", "function", "method", "field", "static", "var",
     "int", "char", "boolean", "void", "true", "false", "null", "this",
     "let", "do", "if", "else", "while", "return"}

\* LineTokenizer.TOKENS: every value of Tok is a key
TOKENS == Tok

Token(type, tok, txt, lno) == [type |-> type, tok |-> tok, txt |-> txt, lno |-> lno]

\* an exception of the given type leaving the generator of tokens
RaiseTok(exc, msg) == [type |-> "raise", tok |-> exc, txt |-> msg, lno |-> 0]

\* \s with re.ASCII
WS == Whitespace \cup {"\f"}

\* how many characters from position p on are in the set: the length of the
\* match of a pattern class* at p
RunLen(line, p, set) ==
    CHOOSE n \in 0..(Len(line) - p + 1) :
        /\ \A k \in p..(p + n - 1) : Ch(line, k) \in set
        /\ (p + n > Len(line) \/ Ch(line, p + n) \notin set)

\* the length of the match of IDENT at p, 0 if there is none
IdentLen(line, p) ==
    IF p <= Len(line) /\ Ch(line, p) \in Alpha THEN 1 + RunLen(line, p + 1, WordChar) ELSE 0

\* str.find(s, p): the first position at or after p where s stands, 0 if none
FindStr(line, s, p) ==
    LET at(i) == i + Len(s) - 1 <= Len(line) /\ SubSeq(line, i, i + Len(s) - 1) = s IN
    IF \E i \in p..Len(line) : at(i)
    THEN CHOOSE i \in p..Len(line) : at(i) /\ \A j \in p..(i - 1) : ~at(j)
    ELSE 0

\* LineTokenizer.match
match(line, p, s) == p + Len(s) - 1 <= Len(line) /\ SubSeq(line, p, p + Len(s) - 1) = s

\* one turn of the loop of LineTokenizer.tokenize at position p: the token it
\* yields or the exception it raises (toks), the position and in_cc after it,
\* and whether it leaves the loop (brk)
tokenizeStep(line, lno, p, in_cc) ==
    LET turn(toks, q, cc, brk) == [toks |-> toks, p |-> q, in_cc |-> cc, brk |-> brk] IN
    IF in_cc THEN
        LET idx == FindStr(line, "*/", p) IN
        IF idx # 0 THEN turn(<<>>, idx + 2, FALSE, FALSE) ELSE turn(<<>>, p, TRUE, TRUE)
    ELSE IF Ch(line, p) \in WS THEN turn(<<>>, p + RunLen(line, p, WS), FALSE, FALSE)
    ELSE IF match(line, p, "/*") THEN turn(<<>>, p + 2, TRUE, FALSE)
    ELSE IF match(line, p, "//") THEN turn(<<>>, p + 2, FALSE, TRUE)
    ELSE IF match(line, p, "\"") THEN
        LET idx == FindStr(line, "\"", p + 1) IN
        IF idx # 0
        THEN turn(<<Token("stringConstant", "stringConstant",
                          SubSeq(line, p + 1, idx - 1), lno)>>, idx + 1, FALSE, FALSE)
        ELSE turn(<<RaiseTok("LexError", "line " \o Str(lno) \o ": unterminated string")>>,
                  p + 1, FALSE, TRUE)
    ELSE IF IdentLen(line, p) > 0 THEN
        LET n == IdentLen(line, p)
            txt == SubSeq(line, p, p + n - 1)
        IN turn(<<IF txt \in TOKENS THEN Token("keyword", txt, txt, lno)
                  ELSE Token("identifier", "identifier", txt, lno)>>, p + n, FALSE, FALSE)
    ELSE IF Ch(line, p) \in Digit THEN
        LET n == RunLen(line, p, Digit) IN
        turn(<<Token("integerConstant", "integerConstant", SubSeq(line, p, p + n - 1), lno)>>,
             p + n, FALSE, FALSE)
    ELSE IF Ch(line, p) \in TOKENS THEN
        turn(<<Token("symbol", Ch(line, p), Ch(line, p), lno)>>, p + 1, FALSE, FALSE)
    ELSE turn(<<RaiseTok("LexError", "invalid character")>>, p + 1, FALSE, TRUE)

\* the tokenizer after one more turn of the loop, t, of LineTokenizer.tokenize:
\* the tokens yielded until then, the position, in_cc, and whether the loop
\* is left
Turned(st, t) == [toks |-> st.toks \o t.toks, p |-> t.p, in_cc |-> t.in_cc, brk |-> t.brk]

\* while self.p < length: one turn, if the loop has not ended
TurnFrom(line, lno, st) ==
    IF st.brk \/ st.p > Len(line) THEN st
    ELSE Turned(st, tokenizeStep(line, lno, st.p, st.in_cc))

RECURSIVE Turns(_, _, _, _)
\* n turns of the loop, the first half of them and then the others
Turns(line, lno, st, n) ==
    IF n <= 1 THEN TurnFrom(line, lno, st)
    ELSE LET half == Turns(line, lno, st, n \div 2) IN
         IF half.brk THEN half ELSE Turns(line, lno, half, n - (n \div 2))

\* LineTokenizer.tokenize: the tokens of the line, the last one a "raise" if
\* the line raises, and in_cc after the line.  Every turn of the loop moves
\* the position forward, so that the loop has ended after Len(line) turns
tokenize(line, lno, in_cc) ==
    Turns(line, lno, [toks |-> <<>>, p |-> 1, in_cc |-> in_cc, brk |-> FALSE], Len(line))

\* does the sequence of tokens end with a raise
Raises(toks) == Len(toks) > 0 /\ toks[Len(toks)].type = "raise"

RECURSIVE lexerFrom(_, _, _)
\* lexer, from line lno on
lexerFrom(jlines, lno, in_cc) ==
    IF lno > Len(jlines)
    THEN IF lno = 1
         THEN <<RaiseTok("UnboundLocalError",
                         "cannot access local variable 'lno' where it is not associated with a value")>>
         ELSE IF in_cc
         THEN <<RaiseTok("LexError", "line " \o Str(lno - 1) \o ": unterminated comment")>>
         ELSE <<Token("EOF", "EOF", "", lno - 1), Token("EOF", "EOF", "", lno - 1)>>
    ELSE LET r == tokenize(jlines[lno], lno, in_cc) IN
         IF Raises(r.toks) THEN r.toks
         ELSE r.toks \o lexerFrom(jlines, lno + 1, r.in_cc)

\* lexer: the tokens of the lines of a file
lexer(jlines) == lexerFrom(jlines, 1, FALSE)

\* f.readlines(): every line with its newline
readlines(text) == [i \in 1..Len(text) |-> text[i] \o "\n"]

(***************************************************************************)
(* src/11/jack_parser/_parser.py.  The Parser is the sequence of tokens    *)
(* and the position of curToken in it.  What a parsing method does is a    *)
(* record: exc, None or the exception that leaves it; val, what it         *)
(* returns; pos, the position of curToken after it.                        *)
(***************************************************************************)
\* an exception of the Python type named
Exc(type, msg) == [tag |-> "Exc", type |-> type, msg |-> msg]

ParseError(msg) == Exc("ParseError", msg)

Ok(val, pos) == [exc |-> None, val |-> val, pos |-> pos]

Fail(exc) == [exc |-> exc, val |-> <<>>, pos |-> 0]

Failed(r) == r.exc.tag # "None"

\* str() of a member of Tok, as the messages of expect show it
TokName ==
    [t \in Tok |->
        CASE t = "stringConstant" -> "Tok.STR" [] t = "identifier" -> "Tok.ID"
          [] t = "integerConstant" -> "Tok.NUM" [] t = "EOF" -> "Tok.EOF"
          [] t = "{" -> "Tok.LC" [] t = "}" -> "Tok.RC" [] t = "[" -> "Tok.LB"
          [] t = "]" -> "Tok.RB" [] t = "(" -> "Tok.LP" [] t = ")" -> "Tok.RP"
          [] t = "." -> "Tok.DOT" [] t = "," -> "Tok.COMMA" [] t = ";" -> "Tok.SEMI"
          [] t = "+" -> "Tok.PLUS" [] t = "-" -> "Tok.MINUS" [] t = "*" -> "Tok.MUL"
          [] t = "/" -> "Tok.DIV" [] t = "&" -> "Tok.AND" [] t = "|" -> "Tok.OR"
          [] t = "~" -> "Tok.NOT" [] t = "<" -> "Tok.LT" [] t = ">" -> "Tok.GT"
          [] t = "=" -> "Tok.EQ" [] t = "class" -> "Tok.CLS"
          [] t = "constructor" -> "Tok.CTOR" [] t = "function" -> "Tok.FN"
          [] t = "method" -> "Tok.METHOD" [] t = "field" -> "Tok.FIELD"
          [] t = "static" -> "Tok.STATIC" [] t = "var" -> "Tok.VAR"
          [] t = "int" -> "Tok.INT" [] t = "char" -> "Tok.CHAR"
          [] t = "boolean" -> "Tok.BOOL" [] t = "void" -> "Tok.VOID"
          [] t = "true" -> "Tok.TRUE" [] t = "false" -> "Tok.FALSE"
          [] t = "null" -> "Tok.NULL" [] t = "this" -> "Tok.THIS"
          [] t = "let" -> "Tok.LET" [] t = "do" -> "Tok.DO" [] t = "if" -> "Tok.IF"
          [] t = "else" -> "Tok.ELSE" [] t = "while" -> "Tok.WHILE"
          [] t = "return" -> "Tok.RETURN"]

\* Parser.TYPES
TYPES == {"int", "boolean", "char", "identifier"}

\* Parser.CONST_TYPES
CONST_TYPES ==
    [t \in {"integerConstant", "stringConstant", "true", "false", "null", "this"} |->
        CASE t = "integerConstant" -> "int" [] t = "stringConstant" -> "str"
          [] t \in {"true", "false"} -> "bool" [] OTHER -> "ref"]

\* Parser.BIN_OPS
BIN_OPS == {"+", "-", "*", "/", "&", "|", "<", ">", "="}

\* what maybe returns when the token is not there
NoTok == Token("none", "none", "", 0)

\* Parser.current
current(toks, pos) == toks[pos]

\* Parser.read: curToken becomes the next token of the lexer, whose LexError
\* is raised again as a ParseError; any other exception passes unchanged
read(toks, pos) ==
    IF pos + 1 > Len(toks) THEN Fail(Exc("StopIteration", ""))
    ELSE LET nxt == toks[pos + 1] IN
         IF nxt.type = "raise"
         THEN Fail(IF nxt.tok = "LexError" THEN ParseError(nxt.txt) ELSE Exc(nxt.tok, nxt.txt))
         ELSE Ok(toks[pos], pos + 1)

\* Parser.expect: want is the set of Tok among the arguments, last the text
\* of the last argument
expect(toks, pos, want, last) ==
    LET cur == toks[pos] IN
    IF cur.tok \in want THEN read(toks, pos)
    ELSE Fail(ParseError("line " \o Str(cur.lno) \o ": expected " \o last \o ", found "
                         \o TokName[cur.tok]))

\* Parser.expect with Tok arguments only
expect1(toks, pos, t) == expect(toks, pos, {t}, TokName[t])

\* Parser.maybe
maybe(toks, pos, want) ==
    LET cur == toks[pos] IN
    IF cur.tok \in want THEN read(toks, pos) ELSE Ok(NoTok, pos)

\* Parser.__init__: the position of curToken after the first read, or the
\* exception of that read
ParserInit(toks) ==
    IF toks[1].type = "raise"
    THEN Fail(IF toks[1].tok = "LexError" THEN ParseError(toks[1].txt)
              ELSE Exc(toks[1].tok, toks[1].txt))
    ELSE Ok(<<>>, 1)

(***************************************************************************)
(* src/11/jack_parser/_ast.py: the nodes.  A tag tells the Python type.    *)
(***************************************************************************)
Name(value, line) == [tag |-> "Name", value |-> value, line |-> line]

\* a member of Tok where a Name may stand too
TokTy(t) == [tag |-> "Tok", value |-> t]

\* Name.from_tok
from_tok(tok) == Name(tok.txt, tok.lno)

\* Name.get_type
get_type_of(tok) == IF tok.tok = "identifier" THEN from_tok(tok) ELSE TokTy(tok.tok)

Decl(ty, names) == [ty |-> ty, names |-> names]

\* Decl.class_name
class_name(decl) == IF decl.ty.tag = "Name" THEN decl.ty ELSE None

\* Decl.builtin_name is not None
has_builtin_name(decl) == decl.ty.tag = "Tok"

Call(names, params) == [tag |-> "Call", names |-> names, params |-> params]
JConst(type, val) == [tag |-> "Const", type |-> type, val |-> val]
Subscript(name, idx) == [tag |-> "Subscript", name |-> name, idx |-> idx]
Var(name) == [tag |-> "Var", name |-> name]
Expr(terms, operators) == [tag |-> "Expr", terms |-> terms, ops |-> operators]
\* unary is "" where the Python field is None
Term(unary, grouped, expr) == [unary |-> unary, grouped |-> grouped, expr |-> expr]
Class(module, name, cvars, subs) ==
    [module |-> module, name |-> name, cvars |-> cvars, subs |-> subs]
ClassVar(scope, decl) == [scope |-> scope, decl |-> decl]
Subroutine(mtype, decl, args, locs, stmts) ==
    [mtype |-> mtype, decl |-> decl, args |-> args, locs |-> locs, stmts |-> stmts]
LetStmt(lvalue, expr, lno) == [tag |-> "LetStmt", lvalue |-> lvalue, expr |-> expr, lno |-> lno]
DoStmt(call, lno) == [tag |-> "DoStmt", call |-> call, lno |-> lno]
\* the statements of a block, where None may stand too
Block(stmts) == [tag |-> "Block", stmts |-> stmts]

\* false is None where the statement has no else, a Block where it has one
IfStmt(expr, true, false, lno) ==
    [tag |-> "IfStmt", expr |-> expr, true |-> true, false |-> false, lno |-> lno]
WhileStmt(expr, stmts, lno) == [tag |-> "WhileStmt", expr |-> expr, stmts |-> stmts, lno |-> lno]
\* expr is None where the statement is a bare return
RetStmt(expr, lno) == [tag |-> "RetStmt", expr |-> expr, lno |-> lno]

\* the rest of a parsing method after a call r of the parser in it: the
\* exception of r leaves the method, otherwise the method goes on with what r
\* returned
Then(r, rest(_)) == IF Failed(r) THEN r ELSE rest(r)

\* the items a loop of a parsing method appends: the first, then the others
Cons(first, others) == Ok(<<first>> \o others.val, others.pos)

RECURSIVE MoreNames(_, _)
\* while p.maybe(Tok.COMMA): names.append(Name.from_tok(p.expect(Tok.ID)))
MoreNames(toks, pos) ==
    Then(maybe(toks, pos, {","}), LAMBDA c :
    IF c.val = NoTok THEN Ok(<<>>, pos)
    ELSE Then(expect1(toks, c.pos, "identifier"), LAMBDA n :
         Then(MoreNames(toks, n.pos), LAMBDA others : Cons(from_tok(n.val), others))))

\* type name {, name} ; as ClassVar.parse and Subroutine.parse read it
TypedNames(toks, pos) ==
    Then(expect(toks, pos, TYPES, "type"), LAMBDA t :
    Then(expect1(toks, t.pos, "identifier"), LAMBDA n :
    Then(MoreNames(toks, n.pos), LAMBDA more :
    Then(expect1(toks, more.pos, ";"), LAMBDA semi :
    Ok(Decl(get_type_of(t.val), <<from_tok(n.val)>> \o more.val), semi.pos)))))

\* ClassVar.parse
ClassVarParse(toks, pos) ==
    Then(read(toks, pos), LAMBDA scope :
    Then(TypedNames(toks, scope.pos), LAMBDA d : Ok(ClassVar(scope.val.tok, d.val), d.pos)))

RECURSIVE ClassVars(_, _)
\* Class.parse: while p.current().tok in [Tok.FIELD, Tok.STATIC]
ClassVars(toks, pos) ==
    IF toks[pos].tok \notin {"field", "static"} THEN Ok(<<>>, pos)
    ELSE Then(ClassVarParse(toks, pos), LAMBDA v :
         Then(ClassVars(toks, v.pos), LAMBDA others : Cons(v.val, others)))

\* Subroutine.parse: a parameter, type and name
ArgParse(toks, pos) ==
    Then(expect(toks, pos, TYPES, "type"), LAMBDA t :
    Then(expect1(toks, t.pos, "identifier"), LAMBDA n :
    Ok(Decl(get_type_of(t.val), <<from_tok(n.val)>>), n.pos)))

RECURSIVE MoreArgs(_, _)
\* Subroutine.parse: while p.maybe(Tok.COMMA): args.append(...)
MoreArgs(toks, pos) ==
    Then(maybe(toks, pos, {","}), LAMBDA c :
    IF c.val = NoTok THEN Ok(<<>>, pos)
    ELSE Then(ArgParse(toks, c.pos), LAMBDA a :
         Then(MoreArgs(toks, a.pos), LAMBDA others : Cons(a.val, others))))

\* Subroutine.parse: the parameter list after the left parenthesis
ArgsParse(toks, pos) ==
    Then(maybe(toks, pos, {")"}), LAMBDA rp :
    IF rp.val # NoTok THEN Ok(<<>>, rp.pos)
    ELSE Then(ArgParse(toks, pos), LAMBDA a :
         Then(MoreArgs(toks, a.pos), LAMBDA more :
         Then(expect1(toks, more.pos, ")"), LAMBDA close :
         Ok(<<a.val>> \o more.val, close.pos)))))

RECURSIVE LocsParse(_, _)
\* Subroutine.parse: while p.maybe(Tok.VAR): one Decl for each declaration,
\* with every name the declaration lists
LocsParse(toks, pos) ==
    Then(maybe(toks, pos, {"var"}), LAMBDA v :
    IF v.val = NoTok THEN Ok(<<>>, pos)
    ELSE Then(TypedNames(toks, v.pos), LAMBDA d :
         Then(LocsParse(toks, d.pos), LAMBDA others : Cons(d.val, others))))

RECURSIVE ParseRule(_, _, _)
\* the parse methods of the statements and the expressions call each other
\* through ParseRule, which names the method by the operator that models it

\* Expr.parse: while tok := p.maybe(*Parser.BIN_OPS); val is [terms, ops]
MoreTerms(toks, pos) ==
    Then(maybe(toks, pos, BIN_OPS), LAMBDA o :
    IF o.val = NoTok THEN Ok([terms |-> <<>>, ops |-> <<>>], pos)
    ELSE Then(ParseRule("TermParse", toks, o.pos), LAMBDA t :
         Then(ParseRule("MoreTerms", toks, t.pos), LAMBDA others :
         Ok([terms |-> <<t.val>> \o others.val.terms,
             ops |-> <<o.val.tok>> \o others.val.ops], others.pos))))

\* Expr.parse
ExprParse(toks, pos) ==
    Then(ParseRule("TermParse", toks, pos), LAMBDA t :
    Then(ParseRule("MoreTerms", toks, t.pos), LAMBDA others :
    Ok(Expr(<<t.val>> \o others.val.terms, others.val.ops), others.pos)))

\* tok.txt of tok := p.maybe(Tok.MINUS, Tok.NOT), "" where it is None
UnaryOf(u) == IF u.val = NoTok THEN "" ELSE u.val.txt

\* Term.parse
TermParse(toks, pos) ==
    Then(maybe(toks, pos, {"-", "~"}), LAMBDA u :
    Then(maybe(toks, u.pos, {"("}), LAMBDA lp :
    IF lp.val # NoTok THEN
        Then(ParseRule("ExprParse", toks, lp.pos), LAMBDA e :
        Then(expect1(toks, e.pos, ")"), LAMBDA rp : Ok(Term(UnaryOf(u), TRUE, e.val), rp.pos)))
    ELSE IF toks[u.pos].tok \in DOMAIN CONST_TYPES THEN
        Then(read(toks, u.pos), LAMBDA c :
        Ok(Term(UnaryOf(u), FALSE, JConst(CONST_TYPES[c.val.tok], c.val.txt)), c.pos))
    ELSE Then(ParseRule("VarParse", toks, u.pos), LAMBDA v :
         Ok(Term(UnaryOf(u), FALSE, v.val), v.pos))))

\* Var.parse: while p.maybe(Tok.COMMA): params.append(Expr.parse(p))
MoreParams(toks, pos) ==
    Then(maybe(toks, pos, {","}), LAMBDA c :
    IF c.val = NoTok THEN Ok(<<>>, pos)
    ELSE Then(ParseRule("ExprParse", toks, c.pos), LAMBDA e :
         Then(ParseRule("MoreParams", toks, e.pos), LAMBDA others : Cons(e.val, others))))

\* Var.parse: the parameters of a call, from the left parenthesis on
ParamsParse(toks, pos) ==
    Then(expect1(toks, pos, "("), LAMBDA lp :
    Then(maybe(toks, lp.pos, {")"}), LAMBDA rp :
    IF rp.val # NoTok THEN Ok(<<>>, rp.pos)
    ELSE Then(ParseRule("ExprParse", toks, lp.pos), LAMBDA e :
         Then(ParseRule("MoreParams", toks, e.pos), LAMBDA more :
         Then(expect1(toks, more.pos, ")"), LAMBDA close :
         Ok(<<e.val>> \o more.val, close.pos))))))

\* Var.parse
VarParse(toks, pos, is_call) ==
    Then(expect1(toks, pos, "identifier"), LAMBDA n :
    Then(maybe(toks, n.pos, {"."}), LAMBDA dot :
    IF dot.val # NoTok THEN
        Then(expect1(toks, dot.pos, "identifier"), LAMBDA m :
        Then(ParseRule("ParamsParse", toks, m.pos), LAMBDA ps :
        Ok(Call(<<from_tok(n.val), from_tok(m.val)>>, ps.val), ps.pos)))
    ELSE IF is_call THEN
        Then(ParseRule("ParamsParse", toks, n.pos), LAMBDA ps :
        Ok(Call(<<from_tok(n.val)>>, ps.val), ps.pos))
    ELSE Then(maybe(toks, n.pos, {"["}), LAMBDA lb :
         IF lb.val = NoTok THEN Ok(Var(from_tok(n.val)), n.pos)
         ELSE Then(ParseRule("ExprParse", toks, lb.pos), LAMBDA idx :
              Then(expect1(toks, idx.pos, "]"), LAMBDA rb :
              Ok(Subscript(from_tok(n.val), idx.val), rb.pos))))))

\* LetStmt.parse: from the = on, for the lvalue read
LetStmtRest(toks, pos, lvalue, lno) ==
    Then(expect1(toks, pos, "="), LAMBDA eq :
    Then(ParseRule("ExprParse", toks, eq.pos), LAMBDA e :
    Then(expect1(toks, e.pos, ";"), LAMBDA semi : Ok(LetStmt(lvalue, e.val, lno), semi.pos))))

\* LetStmt.parse
LetStmtParse(toks, pos) ==
    Then(read(toks, pos), LAMBDA kw :
    Then(expect1(toks, kw.pos, "identifier"), LAMBDA n :
    Then(maybe(toks, n.pos, {"["}), LAMBDA lb :
    IF lb.val = NoTok THEN LetStmtRest(toks, n.pos, Var(from_tok(n.val)), kw.val.lno)
    ELSE Then(ParseRule("ExprParse", toks, lb.pos), LAMBDA idx :
         Then(expect1(toks, idx.pos, "]"), LAMBDA rb :
         LetStmtRest(toks, rb.pos, Subscript(from_tok(n.val), idx.val), kw.val.lno))))))

\* DoStmt.parse
DoStmtParse(toks, pos) ==
    Then(read(toks, pos), LAMBDA kw :
    Then(ParseRule("VarParse.call", toks, kw.pos), LAMBDA c :
    Then(expect1(toks, c.pos, ";"), LAMBDA semi : Ok(DoStmt(c.val, kw.val.lno), semi.pos))))

\* { statements } as IfStmt.parse and WhileStmt.parse read it
BlockParse(toks, pos) ==
    Then(expect1(toks, pos, "{"), LAMBDA lc :
    Then(ParseRule("StatementsParse", toks, lc.pos), LAMBDA body :
    Then(expect1(toks, body.pos, "}"), LAMBDA rc : Ok(body.val, rc.pos))))

\* ( expr ) { statements } as IfStmt.parse and WhileStmt.parse read it;
\* val is [expr, stmts]
CondBlock(toks, pos) ==
    Then(expect1(toks, pos, "("), LAMBDA lp :
    Then(ParseRule("ExprParse", toks, lp.pos), LAMBDA e :
    Then(expect1(toks, e.pos, ")"), LAMBDA rp :
    Then(BlockParse(toks, rp.pos), LAMBDA body :
    Ok([expr |-> e.val, stmts |-> body.val], body.pos)))))

\* IfStmt.parse
IfStmtParse(toks, pos) ==
    Then(read(toks, pos), LAMBDA kw :
    Then(CondBlock(toks, kw.pos), LAMBDA cb :
    Then(maybe(toks, cb.pos, {"else"}), LAMBDA el :
    IF el.val = NoTok THEN Ok(IfStmt(cb.val.expr, cb.val.stmts, None, kw.val.lno), cb.pos)
    ELSE Then(BlockParse(toks, el.pos), LAMBDA body :
         Ok(IfStmt(cb.val.expr, cb.val.stmts, Block(body.val), kw.val.lno), body.pos)))))

\* WhileStmt.parse
WhileStmtParse(toks, pos) ==
    Then(read(toks, pos), LAMBDA kw :
    Then(CondBlock(toks, kw.pos), LAMBDA cb :
    Ok(WhileStmt(cb.val.expr, cb.val.stmts, kw.val.lno), cb.pos)))

\* RetStmt.parse
RetStmtParse(toks, pos) ==
    Then(read(toks, pos), LAMBDA kw :
    Then(maybe(toks, kw.pos, {";"}), LAMBDA semi :
    IF semi.val # NoTok THEN Ok(RetStmt(None, kw.val.lno), semi.pos)
    ELSE Then(ParseRule("ExprParse", toks, kw.pos), LAMBDA e :
         Then(expect1(toks, e.pos, ";"), LAMBDA end : Ok(RetStmt(e.val, kw.val.lno), end.pos)))))

\* _Statements.parse: the parse method of the statement the token begins
StatementRule ==
    [t \in {"let", "do", "if", "while", "return"} |->
        CASE t = "let" -> "LetStmtParse" [] t = "do" -> "DoStmtParse"
          [] t = "if" -> "IfStmtParse" [] t = "while" -> "WhileStmtParse"
          [] t = "return" -> "RetStmtParse"]

\* _Statements.parse
StatementsParse(toks, pos) ==
    IF toks[pos].tok \notin DOMAIN StatementRule THEN Ok(<<>>, pos)
    ELSE Then(ParseRule(StatementRule[toks[pos].tok], toks, pos), LAMBDA stmt :
         Then(ParseRule("StatementsParse", toks, stmt.pos), LAMBDA others :
         Cons(stmt.val, others)))

\* the parse method named, at the position given
ParseRule(rule, toks, pos) ==
    CASE rule = "MoreTerms" -> MoreTerms(toks, pos)
      [] rule = "ExprParse" -> ExprParse(toks, pos)
      [] rule = "TermParse" -> TermParse(toks, pos)
      [] rule = "MoreParams" -> MoreParams(toks, pos)
      [] rule = "ParamsParse" -> ParamsParse(toks, pos)
      [] rule = "VarParse" -> VarParse(toks, pos, FALSE)
      [] rule = "VarParse.call" -> VarParse(toks, pos, TRUE)
      [] rule = "LetStmtParse" -> LetStmtParse(toks, pos)
      [] rule = "DoStmtParse" -> DoStmtParse(toks, pos)
      [] rule = "IfStmtParse" -> IfStmtParse(toks, pos)
      [] rule = "WhileStmtParse" -> WhileStmtParse(toks, pos)
      [] rule = "RetStmtParse" -> RetStmtParse(toks, pos)
      [] rule = "StatementsParse" -> StatementsParse(toks, pos)

\* Subroutine.parse
SubroutineParse(toks, pos) ==
    Then(read(toks, pos), LAMBDA mtype :
    Then(expect(toks, mtype.pos, {"void"} \cup TYPES, "type"), LAMBDA t :
    Then(expect1(toks, t.pos, "identifier"), LAMBDA n :
    Then(expect1(toks, n.pos, "("), LAMBDA lp :
    Then(ArgsParse(toks, lp.pos), LAMBDA args :
    Then(expect1(toks, args.pos, "{"), LAMBDA lc :
    Then(LocsParse(toks, lc.pos), LAMBDA locs :
    Then(ParseRule("StatementsParse", toks, locs.pos), LAMBDA stmts :
    Then(expect1(toks, stmts.pos, "}"), LAMBDA rc :
    Ok(Subroutine(mtype.val.tok, Decl(get_type_of(t.val), <<from_tok(n.val)>>),
                  args.val, locs.val, stmts.val), rc.pos))))))))))

RECURSIVE Subroutines(_, _)
\* Class.parse: while p.current().tok in [Tok.CTOR, Tok.FN, Tok.METHOD]
Subroutines(toks, pos) ==
    IF toks[pos].tok \notin {"constructor", "function", "method"} THEN Ok(<<>>, pos)
    ELSE Then(SubroutineParse(toks, pos), LAMBDA s :
         Then(Subroutines(toks, s.pos), LAMBDA others : Cons(s.val, others)))

\* Class.parse
ClassParse(toks, pos, module) ==
    Then(expect1(toks, pos, "identifier"), LAMBDA n :
    Then(expect1(toks, n.pos, "{"), LAMBDA lc :
    Then(ClassVars(toks, lc.pos), LAMBDA cvars :
    Then(Subroutines(toks, cvars.pos), LAMBDA subs :
    Then(expect1(toks, subs.pos, "}"), LAMBDA rc :
    Ok(Class(module, from_tok(n.val), cvars.val, subs.val), rc.pos))))))

\* Program.parse_module: the body of the try
ParseClass(toks, pos, module) ==
    Then(expect1(toks, pos, "class"), LAMBDA cls :
    Then(ClassParse(toks, cls.pos, module), LAMBDA c :
    Then(expect1(toks, c.pos, "EOF"), LAMBDA eof : Ok(c.val, eof.pos))))

\* Program.parse_module: except ParseError as e: raise
\* ParseError(f"{module}: {str(e)}")
ModuleError(r, module) ==
    IF Failed(r) /\ r.exc.type = "ParseError"
    THEN Fail(ParseError(module \o ": " \o r.exc.msg))
    ELSE r

\* Program.parse_module for the tokens of the lines: the exception of
\* Parser(lines) is raised before the try
ParseTokens(toks, module) ==
    Then(ParserInit(toks), LAMBDA p : ModuleError(ParseClass(toks, p.pos, module), module))

\* Program.parse_module: the class of the module, or the exception
parse_module(module, jlines) == ParseTokens(lexer(jlines), module)

(***************************************************************************)
(* src/11/Generator.py: SymTable.  A dict is a function with a finite      *)
(* domain, the SymTable a record of its attributes; the two counters of a  *)
(* VarCode pair are fields of it.  A method that changes the table returns *)
(* [exc, sy]: the exception or None, and the table after it.               *)
(***************************************************************************)
redef_error(name) == ParseError("line " \o Str(name.line) \o ": " \o name.value \o " redefined")

undef_error(name) == ParseError("line " \o Str(name.line) \o ": " \o name.value \o " undefined")

array_error(name) ==
    ParseError("line " \o Str(name.line) \o ": cannot subscript builtin " \o name.value)

parse_error(name, msg) ==
    ParseError("line " \o Str(name.line) \o ": " \o name.value \o " " \o msg)

\* KeyError(key), whose text is the repr of the key
KeyError(key) == Exc("KeyError", "'" \o key \o "'")

EmptyDict == <<>>

\* d[key] = val
Put(d, key, val) == (key :> val) @@ d

SubSym(cm, im) == [cm_names |-> cm, im_names |-> im]

\* are the items of dict d all items of dict e
ItemsIn(d, e) == \A k \in DOMAIN d : k \in DOMAIN e /\ e[k] = d[k]

\* SubSym.conforms
conforms(self, other) ==
    ItemsIn(other.cm_names, self.cm_names) /\ ItemsIn(other.im_names, self.im_names)

VarSym(ty, code) == [ty |-> ty, code |-> code]

\* SymTable.OS
OS ==
    [c \in {"Math", "String", "Array", "Output", "Screen", "Keyboard", "Memory", "Sys"} |->
        CASE c = "Math" ->
               SubSym([n \in {"multiply", "divide", "min", "max", "sqrt", "abs"} |->
                          IF n = "abs" THEN 1 ELSE 2], EmptyDict)
          [] c = "String" ->
               SubSym([n \in {"new", "backSpace", "doubleQuote", "newLine"} |->
                          IF n = "new" THEN 1 ELSE 0],
                      [n \in {"dispose", "length", "charAt", "setCharAt", "appendChar",
                              "eraseLastChar", "intValue", "setInt"} |->
                          CASE n \in {"charAt", "appendChar", "setInt"} -> 1
                            [] n = "setCharAt" -> 2
                            [] OTHER -> 0])
          [] c = "Array" -> SubSym([n \in {"new"} |-> 1], [n \in {"dispose"} |-> 0])
          [] c = "Output" ->
               SubSym([n \in {"moveCursor", "printChar", "printString", "printInt",
                              "println", "backSpace"} |->
                          CASE n = "moveCursor" -> 2
                            [] n \in {"println", "backSpace"} -> 0
                            [] OTHER -> 1], EmptyDict)
          [] c = "Screen" ->
               SubSym([n \in {"clearScreen", "setColor", "drawPixel", "drawLine",
                              "drawRectangle", "drawCircle"} |->
                          CASE n = "clearScreen" -> 0 [] n = "setColor" -> 1
                            [] n = "drawPixel" -> 2 [] n = "drawCircle" -> 3
                            [] OTHER -> 4], EmptyDict)
          [] c = "Keyboard" ->
               SubSym([n \in {"keyPressed", "readChar", "readLine", "readInt"} |->
                          IF n \in {"keyPressed", "readChar"} THEN 0 ELSE 1], EmptyDict)
          [] c = "Memory" ->
               SubSym([n \in {"peek", "poke", "alloc", "deAlloc"} |->
                          IF n = "poke" THEN 2 ELSE 1], EmptyDict)
          [] c = "Sys" ->
               SubSym([n \in {"halt", "error", "wait"} |-> IF n = "halt" THEN 0 ELSE 1],
                      EmptyDict)]

\* SymTable.__init__; the attributes that start as None start as empty here
NewSymTable ==
    [subs |-> EmptyDict, class_name |-> "", cvars |-> EmptyDict, static_count |-> 0,
     field_count |-> 0, func_decl |-> Decl(TokTy("void"), <<>>), fvars |-> EmptyDict,
     arg_count |-> 0, loc_count |-> 0, label_id |-> 0]

SymOk(sy) == [exc |-> None, sy |-> sy]

SymFail(exc, sy) == [exc |-> exc, sy |-> sy]

\* SymTable.var_code: [exc, val]
var_code(sy, name) ==
    IF name.value \in DOMAIN sy.fvars THEN [exc |-> None, val |-> sy.fvars[name.value]]
    ELSE IF name.value \in DOMAIN sy.cvars THEN [exc |-> None, val |-> sy.cvars[name.value]]
    ELSE [exc |-> undef_error(name), val |-> <<>>]

\* SymTable.arr_code: [exc, val]
arr_code(sy, name) ==
    LET sym == var_code(sy, name) IN
    IF Failed(sym) THEN sym
    ELSE IF sym.val.ty = "<builtin>" THEN [exc |-> array_error(name), val |-> <<>>]
    ELSE sym

\* SymTable.label without a suffix
symLabel(sy) == sy.class_name \o "." \o sy.func_decl.names[1].value

\* SymTable.label with a suffix, for the label_id already increased
symLabelOf(sy, suffix) == symLabel(sy) \o "." \o suffix \o "_" \o Str(sy.label_id)

RECURSIVE SubNames(_, _, _, _)
\* SymTable.add_subs: the loop over c.subs; val is [cm, im]
SubNames(cname, subs, cm, im) ==
    IF Len(subs) = 0 THEN [exc |-> None, val |-> [cm |-> cm, im |-> im]]
    ELSE LET sub == subs[1]
             sname == sub.decl.names[1]
         IN
         IF sub.mtype = "method"
         THEN IF sname.value \in DOMAIN im THEN [exc |-> redef_error(cname), val |-> <<>>]
              ELSE SubNames(cname, Tail(subs), cm, Put(im, sname.value, Len(sub.args)))
         ELSE IF sname.value \in DOMAIN cm THEN [exc |-> redef_error(sname), val |-> <<>>]
              ELSE SubNames(cname, Tail(subs), Put(cm, sname.value, Len(sub.args)), im)

\* self.OS.get(name, None) of SymTable.add_subs: name is the Name of the
\* class, a tuple (value, line), and the keys of OS are strings, so that no
\* key equals it and get returns None for every class
OSGetByName(name) == None

\* SymTable.add_subs
add_subs(sy, c) ==
    IF c.name.value \in DOMAIN sy.subs THEN SymFail(redef_error(c.name), sy)
    ELSE LET names == SubNames(c.name, c.subs, EmptyDict, EmptyDict) IN
         IF Failed(names) THEN SymFail(names.exc, sy)
         ELSE LET subsym == SubSym(names.val.cm, names.val.im)
                  builtin == OSGetByName(c.name)
              IN
              IF builtin.tag # "None" /\ ~conforms(subsym, builtin)
              THEN SymFail(parse_error(c.name, "does not implement builtin"), sy)
              ELSE SymOk([sy EXCEPT !.subs = Put(@, c.name.value, subsym)])

\* SymTable.get_type: [exc, val]
get_type(sy, decl) ==
    IF has_builtin_name(decl) THEN [exc |-> None, val |-> "<builtin>"]
    ELSE LET name == class_name(decl) IN
         IF name.value \in DOMAIN OS \/ name.value \in DOMAIN sy.subs
         THEN [exc |-> None, val |-> name.value]
         ELSE [exc |-> undef_error(name), val |-> <<>>]

RECURSIVE AddNames(_, _, _, _, _)
\* the loop over the names of one declaration: each gets the next code of
\* the segment; table is the dict, count the counter of the segment's VarCode
AddNames(names, ty, segment, table, count) ==
    IF Len(names) = 0 THEN [exc |-> None, vars |-> table, count |-> count]
    ELSE IF names[1].value \in DOMAIN table
         THEN [exc |-> redef_error(names[1]), vars |-> table, count |-> count]
    ELSE AddNames(Tail(names), ty, segment,
                  Put(table, names[1].value, VarSym(ty, segment \o " " \o Str(count))),
                  count + 1)

RECURSIVE AddClassVars(_, _, _)
\* SymTable.add_class: the loop over c.cvars
AddClassVars(sy, cvars, table) ==
    IF Len(cvars) = 0 THEN SymOk([sy EXCEPT !.cvars = table])
    ELSE LET ty == get_type(sy, cvars[1].decl) IN
         IF Failed(ty) THEN SymFail(ty.exc, sy)
         ELSE IF cvars[1].scope = "static"
         THEN LET r == AddNames(cvars[1].decl.names, ty.val, "static", table, sy.static_count) IN
              IF Failed(r) THEN SymFail(r.exc, sy)
              ELSE AddClassVars([sy EXCEPT !.static_count = r.count], Tail(cvars), r.vars)
         ELSE LET r == AddNames(cvars[1].decl.names, ty.val, "this", table, sy.field_count) IN
              IF Failed(r) THEN SymFail(r.exc, sy)
              ELSE AddClassVars([sy EXCEPT !.field_count = r.count], Tail(cvars), r.vars)

\* SymTable.add_class
add_class(sy, c) ==
    AddClassVars([sy EXCEPT !.class_name = c.name.value, !.field_count = 0], c.cvars, EmptyDict)

\* SymTable.field_count
field_count(sy) == sy.field_count

RECURSIVE AddVars(_, _, _, _)
\* SymTable.add_sub: the loop over s.args (segment argument, one name each)
\* or over s.locs (segment local, every name of each declaration)
AddVars(sy, decls, segment, table) ==
    IF Len(decls) = 0 THEN SymOk([sy EXCEPT !.fvars = table])
    ELSE LET ty == get_type(sy, decls[1]) IN
         IF Failed(ty) THEN SymFail(ty.exc, sy)
         ELSE IF segment = "argument"
         THEN LET r == AddNames(<<decls[1].names[1]>>, ty.val, segment, table, sy.arg_count) IN
              IF Failed(r) THEN SymFail(r.exc, sy)
              ELSE AddVars([sy EXCEPT !.arg_count = r.count], Tail(decls), segment, r.vars)
         ELSE LET r == AddNames(decls[1].names, ty.val, segment, table, sy.loc_count) IN
              IF Failed(r) THEN SymFail(r.exc, sy)
              ELSE AddVars([sy EXCEPT !.loc_count = r.count], Tail(decls), segment, r.vars)

\* add_sub with argument 0 not kept for this
MutAddSub(sy, s) ==
    LET start == [sy EXCEPT !.func_decl = s.decl, !.label_id = 0,
                            !.arg_count = 0,
                            !.loc_count = 0]
        args == AddVars(start, s.args, "argument", EmptyDict)
    IN
    IF Failed(args) THEN args
    ELSE AddVars(args.sy, s.locs, "local", args.sy.fvars)

\* SymTable.add_sub
add_sub(sy, s) ==
    LET start == [sy EXCEPT !.func_decl = s.decl, !.label_id = 0,
                            !.arg_count = IF s.mtype = "method" THEN 1 ELSE 0,
                            !.loc_count = 0]
        args == AddVars(start, s.args, "argument", EmptyDict)
    IN
    IF Failed(args) THEN args
    ELSE AddVars(args.sy, s.locs, "local", args.sy.fvars)

\* SymTable.check_call: [exc, pcode, fname]
check_call(sy, call) ==
    LET name0 == call.names[1]
        CallFail(exc) == [exc |-> exc, pcode |-> "", fname |-> ""]
        two == Len(call.names) = 2
        static == two /\ (name0.value \in DOMAIN sy.subs \/ name0.value \in DOMAIN OS)
    IN
    IF static THEN
        LET name1 == call.names[2]
            scope == IF name0.value \in DOMAIN sy.subs THEN sy.subs[name0.value]
                     ELSE OS[name0.value]
        IN
        IF name1.value \notin DOMAIN scope.cm_names THEN CallFail(KeyError(name1.value))
        ELSE IF scope.cm_names[name1.value] # Len(call.params)
        THEN CallFail(parse_error(name1, "takes {len(call.params)} args"))
        ELSE [exc |-> None, pcode |-> "", fname |-> name0.value \o "." \o name1.value]
    ELSE
        LET var == IF two THEN var_code(sy, name0) ELSE [exc |-> None, val |-> <<>>] IN
        IF Failed(var) THEN CallFail(parse_error(name0, "is not a variable"))
        ELSE LET ty == IF two THEN var.val.ty ELSE sy.class_name
                 pcode == IF two THEN var.val.code ELSE "argument 0"
                 fname == IF two THEN call.names[2] ELSE name0
             IN
             IF ty \notin DOMAIN sy.subs THEN CallFail(KeyError(ty))
             ELSE IF fname.value \notin DOMAIN sy.subs[ty].im_names
             THEN CallFail(KeyError(fname.value))
             ELSE IF sy.subs[ty].im_names[fname.value] # Len(call.params)
             THEN CallFail(parse_error(fname, "takes {len(call.params)} args"))
             ELSE [exc |-> None, pcode |-> pcode, fname |-> ty \o "." \o fname.value]

(***************************************************************************)
(* src/11/Generator.py: Generator.  A generating method returns [exc, out, *)
(* sy]: the exception that leaves it or None, the lines it has written to  *)
(* f until then, and the SymTable after it.                                *)
(***************************************************************************)
\* Generator.write of the lines, one call each
Write(sy, text) == [exc |-> None, out |-> text, sy |-> sy]

Raise(sy, exc) == [exc |-> exc, out |-> <<>>, sy |-> sy]

\* what a has written, then what b has: b has begun with the SymTable a left
Join(a, b) == [exc |-> b.exc, out |-> a.out \o b.out, sy |-> b.sy]

\* a then what follows it: the exception of a leaves the method, otherwise
\* the method goes on with the SymTable a has left and writes after a
After(a, next(_)) == IF Failed(a) THEN a ELSE Join(a, next(a.sy))

\* a method of the SymTable is called and the generator goes on with what it
\* returned, or its exception leaves the generator
Looked(sy, r, next(_)) == IF Failed(r) THEN Raise(sy, r.exc) ELSE next(r)

\* ord(c) for the printable ASCII characters but the double quote, which no
\* string constant holds, and the grave accent
Ord(c) ==
    LET low == " !"
        mid == "#$%&'()*+,-./0123456789:;<=>?@ABCDEFGHIJKLMNOPQRSTUVWXYZ["
        high == "]^_"
        top == "abcdefghijklmnopqrstuvwxyz{|}~"
    IN IF Find(low, c) > 0 THEN 31 + Find(low, c)
       ELSE IF Find(mid, c) > 0 THEN 34 + Find(mid, c)
       ELSE IF c = "\\" THEN 92
       ELSE IF Find(high, c) > 0 THEN 92 + Find(high, c)
       ELSE 96 + Find(top, c)

\* the commands with those of < and > exchanged
MutOpCode(op) ==
    CASE op = "+" -> "add" [] op = "-" -> "sub" [] op = "&" -> "and" [] op = "|" -> "or"
      [] op = "=" -> "eq" [] op = "<" -> "gt" [] op = ">" -> "lt"
      [] op = "/" -> "call Math.divide 2" [] op = "*" -> "call Math.multiply 2"

\* the VM command generate_expr writes for a binary operator
OpCode(op) ==
    CASE op = "+" -> "add" [] op = "-" -> "sub" [] op = "&" -> "and" [] op = "|" -> "or"
      [] op = "=" -> "eq" [] op = "<" -> "lt" [] op = ">" -> "gt"
      [] op = "/" -> "call Math.divide 2" [] op = "*" -> "call Math.multiply 2"

RECURSIVE Generate(_, _, _)
\* the generating methods call each other through Generate, which names the
\* method by the operator that models it

RECURSIVE ExprRest(_, _, _)
\* generate_expr: for (term, op) in zip(expr.terms[1:], expr.ops)
ExprRest(sy, terms, binops) ==
    IF Len(terms) = 0 \/ Len(binops) = 0 THEN Write(sy, <<>>)
    ELSE After(Generate("generate_term", sy, terms[1]), LAMBDA s1 :
         After(Write(s1, <<OpCode(binops[1])>>), LAMBDA s2 :
         ExprRest(s2, Tail(terms), Tail(binops))))

\* Generator.generate_expr
generate_expr(sy, expr) ==
    After(Generate("generate_term", sy, expr.terms[1]), LAMBDA s1 :
    ExprRest(s1, Tail(expr.terms), expr.ops))

\* Generator.generate_term
generate_term(sy, term) ==
    After(Generate("generate_texpr", sy, term.expr), LAMBDA s1 :
    Write(s1, CASE term.unary = "-" -> <<"neg">>
                [] term.unary = "~" -> <<"not">>
                [] OTHER -> <<>>))

\* generate_texpr for a string constant: the loop over its characters
StrChars(val) ==
    [i \in 1..(2 * Len(val)) |->
        IF i % 2 = 1 THEN "push const " \o Str(Ord(Ch(val, (i + 1) \div 2)))
        ELSE "call String.appendChar 1"]

\* generate_texpr for a Const
generate_const(sy, expr) ==
    IF expr.type = "int" THEN Write(sy, <<"push const " \o expr.val>>)
    ELSE IF expr.type = "str"
    THEN Write(sy, <<"push const " \o Str(Len(expr.val)), "call String.new 1">>
                   \o StrChars(expr.val))
    ELSE CASE expr.val = "true" -> Write(sy, <<"push const 1">>)
           [] expr.val \in {"false", "null"} -> Write(sy, <<"push const 0">>)
           [] expr.val = "this" -> Write(sy, <<"push pointer 0">>)

\* generate_texpr for a Call: nargs
call_nargs(pcode, expr) ==
    IF pcode = "argument 0" THEN Len(expr.params) + 1 ELSE Len(expr.params)

\* generate_texpr for a Call
generate_call(sy, expr) ==
    Looked(sy, check_call(sy, expr), LAMBDA c :
    Write(sy, (IF c.pcode # "" THEN <<"push " \o c.pcode>> ELSE <<>>)
              \o <<"call " \o c.fname \o " " \o Str(call_nargs(c.pcode, expr))>>))

\* generate_texpr for a Subscript
generate_subscript(sy, expr) ==
    Looked(sy, arr_code(sy, expr.name), LAMBDA sym :
    After(Write(sy, <<"push " \o sym.val.code>>), LAMBDA s1 :
    After(Generate("generate_expr", s1, expr.idx), LAMBDA s2 :
    Write(s2, <<"add", "pop pointer 1", "push that 0">>))))

\* Generator.generate_texpr
generate_texpr(sy, expr) ==
    CASE expr.tag = "Expr" -> Generate("generate_expr", sy, expr)
      [] expr.tag = "Const" -> generate_const(sy, expr)
      [] expr.tag = "Var" ->
            Looked(sy, var_code(sy, expr.name), LAMBDA sym :
            Write(sy, <<"push " \o sym.val.code>>))
      [] expr.tag = "Call" -> generate_call(sy, expr)
      [] expr.tag = "Subscript" -> generate_subscript(sy, expr)

\* the loops `for stmt in ...: self.generate_stmt(stmt)`
generate_stmts(sy, stmts) ==
    IF Len(stmts) = 0 THEN Write(sy, <<>>)
    ELSE After(Generate("generate_stmt", sy, stmts[1]), LAMBDA s1 :
         Generate("generate_stmts", s1, Tail(stmts)))

\* generate_stmt for a LetStmt with the address of the element taken first
MutGenerateLet(sy, node) ==
    IF node.lvalue.tag = "Var"
    THEN Looked(sy, var_code(sy, node.lvalue.name), LAMBDA sym :
         After(Generate("generate_expr", sy, node.expr), LAMBDA s1 :
         Write(s1, <<"pop " \o sym.val.code>>)))
    ELSE Looked(sy, arr_code(sy, node.lvalue.name), LAMBDA sym :
         After(Write(sy, <<"push " \o sym.val.code>>), LAMBDA s2 :
         After(Generate("generate_expr", s2, node.lvalue.idx), LAMBDA s3 :
         After(Write(s3, <<"add", "pop pointer 1">>), LAMBDA s4 :
         After(Generate("generate_expr", s4, node.expr), LAMBDA s1 :
         Write(s1, <<"pop that 0">>))))))

\* generate_stmt for a LetStmt
generate_let(sy, node) ==
    IF node.lvalue.tag = "Var"
    THEN Looked(sy, var_code(sy, node.lvalue.name), LAMBDA sym :
         After(Generate("generate_expr", sy, node.expr), LAMBDA s1 :
         Write(s1, <<"pop " \o sym.val.code>>)))
    ELSE Looked(sy, arr_code(sy, node.lvalue.name), LAMBDA sym :
         After(Generate("generate_expr", sy, node.expr), LAMBDA s1 :
         After(Write(s1, <<"push " \o sym.val.code>>), LAMBDA s2 :
         After(Generate("generate_expr", s2, node.lvalue.idx), LAMBDA s3 :
         Write(s3, <<"add", "pop pointer 1", "pop that 0">>)))))

\* self.syms.label(suffix): the SymTable after it, whose label_id is in the label
Labelled(sy) == [sy EXCEPT !.label_id = @ + 1]

\* generate_stmt for a WhileStmt; lbl is the label, sy the SymTable after
\* self.syms.label("while")
generate_while(sy, node, lbl) ==
    After(Write(sy, <<"label " \o lbl \o "_check">>), LAMBDA s1 :
    After(Generate("generate_expr", s1, node.expr), LAMBDA s2 :
    After(Write(s2, <<"if-goto " \o lbl \o "_do", "goto " \o lbl \o "_done">>), LAMBDA s3 :
    After(Generate("generate_stmts", s3, node.stmts), LAMBDA s4 :
    Write(s4, <<"goto " \o lbl \o "_check", "label " \o lbl \o "_done">>)))))

\* generate_stmt for an IfStmt: if node.false: for stmt in node.false
generate_else(sy, node) ==
    IF node.false.tag # "None" /\ Len(node.false.stmts) > 0
    THEN Generate("generate_stmts", sy, node.false.stmts)
    ELSE Write(sy, <<>>)

\* generate_stmt for an IfStmt; lbl is the label, sy the SymTable after
\* self.syms.label("if")
generate_if(sy, node, lbl) ==
    After(Generate("generate_expr", sy, node.expr), LAMBDA s1 :
    After(Write(s1, <<"if-goto " \o lbl \o "_true">>), LAMBDA s2 :
    After(generate_else(s2, node), LAMBDA s3 :
    After(Write(s3, <<"goto " \o lbl \o "_done", "label " \o lbl \o "_true">>), LAMBDA s4 :
    After(Generate("generate_stmts", s4, node.true), LAMBDA s5 :
    Write(s5, <<"label " \o lbl \o "_done">>))))))

\* generate_stmt for a RetStmt: void
IsVoid(sy) == sy.func_decl.ty.tag = "Tok" /\ sy.func_decl.ty.value = "void"

\* generate_stmt for a RetStmt
generate_ret(sy, node) ==
    IF node.expr.tag = "None"
    THEN IF ~IsVoid(sy)
         THEN Raise(sy, ParseError("line " \o Str(node.lno) \o ": "
                                   \o sy.func_decl.names[1].value \o " is not void"))
         ELSE Write(sy, <<"push constant 0", "return">>)
    ELSE IF IsVoid(sy)
         THEN Raise(sy, ParseError("line " \o Str(node.lno) \o ": "
                                   \o sy.func_decl.names[1].value \o " is void"))
         ELSE After(Generate("generate_expr", sy, node.expr), LAMBDA s1 :
              Write(s1, <<"return">>))

\* Generator.generate_stmt
generate_stmt(sy, node) ==
    CASE node.tag = "LetStmt" -> generate_let(sy, node)
      [] node.tag = "DoStmt" ->
            After(Generate("generate_texpr", sy, node.call), LAMBDA s1 :
            Write(s1, <<"pop temp 0">>))
      [] node.tag = "WhileStmt" ->
            generate_while(Labelled(sy), node, symLabelOf(Labelled(sy), "while"))
      [] node.tag = "IfStmt" ->
            generate_if(Labelled(sy), node, symLabelOf(Labelled(sy), "if"))
      [] node.tag = "RetStmt" -> generate_ret(sy, node)

\* the generating method named, for the SymTable and the node given
Generate(method, sy, node) ==
    CASE method = "generate_expr" -> generate_expr(sy, node)
      [] method = "generate_term" -> generate_term(sy, node)
      [] method = "generate_texpr" -> generate_texpr(sy, node)
      [] method = "generate_stmt" -> generate_stmt(sy, node)
      [] method = "generate_stmts" -> generate_stmts(sy, node)

\* generate_sub: what a method or a constructor begins with
generate_entry(sy, node) ==
    IF node.mtype = "method" THEN Write(sy, <<"push argument 0", "pop pointer 0">>)
    ELSE IF node.mtype = "constructor"
    THEN IF class_name(node.decl).tag = "None"
         THEN Raise(sy, Exc("AttributeError", "'NoneType' object has no attribute 'value'"))
         ELSE IF class_name(node.decl).value # sy.class_name
         THEN Raise(sy, parse_error(class_name(node.decl), " is invalid ctor return type"))
         ELSE Write(sy, <<"push constant {self.syms.field_count()}",
                          "call Memory.alloc 1", "pop pointer 0">>)
    ELSE Write(sy, <<>>)

\* Generator.generate_sub after self.syms.add_sub(node)
generate_body(sy, node) ==
    IF Len(node.stmts) = 0 THEN Raise(sy, Exc("IndexError", "list index out of range"))
    ELSE IF node.stmts[Len(node.stmts)].tag # "RetStmt"
    THEN Raise(sy, parse_error(node.decl.names[1], "must end with return"))
    ELSE After(Write(sy, <<"function " \o symLabel(sy) \o " " \o Str(Len(node.locs))>>),
               LAMBDA s1 :
         After(generate_entry(s1, node), LAMBDA s2 :
         Generate("generate_stmts", s2, node.stmts)))

\* self.syms.add_sub(node) of generate_sub: its exception leaves generate_sub
Added(added, next(_)) == IF Failed(added) THEN Raise(added.sy, added.exc) ELSE next(added.sy)

\* Generator.generate_sub
generate_sub(sy0, node) == Added(add_sub(sy0, node), LAMBDA sy : generate_body(sy, node))

(***************************************************************************)
(* src/11/Generator.py: test and Generator.generate, one step for each     *)
(* module parsed, each class swept, each subroutine generated.             *)
(***************************************************************************)
\* the Jack compiler before the run, for the files of a directory
JackStart(files) ==
    /\ jackFiles = files
    /\ classes = <<>>
    /\ syms = NewSymTable
    /\ jout = <<>>
    /\ jret = None
    /\ jci = 0
    /\ jsi = 0
    /\ jpc = "parse"

\* Generator.generate: except ParseError as e: raise ParseError(f"module
\* {c.module}: {e}"); any other exception passes unchanged
Wrap(exc, module) ==
    IF exc.type = "ParseError" THEN ParseError("module " \o module \o ": " \o exc.msg)
    ELSE exc

\* test: what prog.parse_module(module, lines) did, r, takes effect: its
\* exception ends the run, its class joins prog.classes
Parsed(r) ==
    IF Failed(r)
    THEN /\ jret' = r.exc
         /\ jpc' = "done"
         /\ UNCHANGED <<classes, jci>>
    ELSE /\ classes' = Append(classes, r.val)
         /\ jci' = jci + 1
         /\ UNCHANGED <<jret, jpc>>

\* test: prog.parse_module(module, lines) for the next file
JackParseModule ==
    /\ jpc = "parse"
    /\ jci < Len(jackFiles)
    /\ Parsed(parse_module(jackFiles[jci + 1].module, readlines(jackFiles[jci + 1].lines)))
    /\ UNCHANGED <<jackFiles, syms, jout, jsi>>
    /\ UNCHANGED notJack

\* test: every file is parsed, g.generate(prog) begins
JackGenerate ==
    /\ jpc = "parse"
    /\ jci = Len(jackFiles)
    /\ jpc' = "sweep"
    /\ jci' = 0
    /\ UNCHANGED <<jackFiles, classes, syms, jout, jret, jsi>>
    /\ UNCHANGED notJack

\* Generator.generate: what self.syms.add_subs(c) did, r, takes effect
Swept(r, c) ==
    IF Failed(r)
    THEN /\ jret' = Wrap(r.exc, c.module)
         /\ jpc' = "done"
         /\ UNCHANGED <<syms, jci>>
    ELSE /\ syms' = r.sy
         /\ jci' = jci + 1
         /\ UNCHANGED <<jret, jpc>>

\* Generator.generate: self.syms.add_subs(c) for the next class
JackAddSubs ==
    /\ jpc = "sweep"
    /\ jci < Len(classes)
    /\ Swept(add_subs(syms, classes[jci + 1]), classes[jci + 1])
    /\ UNCHANGED <<jackFiles, classes, jout, jsi>>
    /\ UNCHANGED notJack

\* Generator.generate: the first loop is over, the second begins
JackSweepDone ==
    /\ jpc = "sweep"
    /\ jci = Len(classes)
    /\ jpc' = "classes"
    /\ jci' = 0
    /\ UNCHANGED <<jackFiles, classes, syms, jout, jret, jsi>>
    /\ UNCHANGED notJack

\* Generator.generate_class: what self.syms.add_class(node) did, r, takes
\* effect
ClassAdded(r, c) ==
    IF Failed(r)
    THEN /\ jret' = Wrap(r.exc, c.module)
         /\ jpc' = "done"
         /\ UNCHANGED syms
    ELSE /\ syms' = r.sy
         /\ jpc' = "subs"
         /\ UNCHANGED jret

\* Generator.generate_class: self.syms.add_class(node) for the next class
JackAddClass ==
    /\ jpc = "classes"
    /\ jci < Len(classes)
    /\ ClassAdded(add_class(syms, classes[jci + 1]), classes[jci + 1])
    /\ jci' = jci + 1
    /\ jsi' = 0
    /\ UNCHANGED <<jackFiles, classes, jout>>
    /\ UNCHANGED notJack

\* Generator.generate_class: what self.generate_sub(sub) did, r, takes
\* effect: the lines it wrote are in the output whether it raised or not
Generated(r, c) ==
    /\ jout' = jout \o r.out
    /\ syms' = r.sy
    /\ IF Failed(r)
       THEN /\ jret' = Wrap(r.exc, c.module)
            /\ jpc' = "done"
       ELSE UNCHANGED <<jret, jpc>>

\* Generator.generate_class: self.generate_sub(sub) for the next subroutine
JackGenerateSub ==
    /\ jpc = "subs"
    /\ jsi < Len(classes[jci].subs)
    /\ Generated(generate_sub(syms, classes[jci].subs[jsi + 1]), classes[jci])
    /\ jsi' = jsi + 1
    /\ UNCHANGED <<jackFiles, classes, jci>>
    /\ UNCHANGED notJack

\* Generator.generate_class returns
JackClassDone ==
    /\ jpc = "subs"
    /\ jsi = Len(classes[jci].subs)
    /\ jpc' = "classes"
    /\ UNCHANGED <<jackFiles, classes, syms, jout, jret, jci, jsi>>
    /\ UNCHANGED notJack

\* Generator.generate returns
JackDone ==
    /\ jpc = "classes"
    /\ jci = Len(classes)
    /\ jpc' = "done"
    /\ UNCHANGED <<jackFiles, classes, syms, jout, jret, jci, jsi>>
    /\ UNCHANGED notJack

NextJack ==
    \/ JackParseModule
    \/ JackGenerate
    \/ JackAddSubs
    \/ JackSweepDone
    \/ JackAddClass
    \/ JackGenerateSub
    \/ JackClassDone
    \/ JackDone

(***************************************************************************)
(* The Jack programs compiled: one class in one file, with two fields, a   *)
(* static variable of the class's own type, one subroutine that varies in  *)
(* kind, return type and body, and after it a method g of one argument and *)
(* a function h of none for the calls of the bodies to name.  Every        *)
(* statement stands on a line of its own.                                  *)
(***************************************************************************)
\* the names of the class: a name of the program's own, and a name of the OS
JackClassNames == {"A", "Math"}

SubKinds == {"function", "method", "constructor"}

SubTypes(cls) == {"void", "int", cls}

\* the bodies of the subroutine; the arguments are x and y
JackBodies(cls) ==
    {<<>>,
     <<"return;">>,
     <<"return 7;">>,
     <<"return true;">>,
     <<"return false;">>,
     <<"return null;">>,
     <<"return this;">>,
     <<"return x;">>,
     <<"let px = x;">>,
     <<"let px = x;", "let py = y;", "return this;">>,
     <<"var int a;", "let a = x;", "return a;">>,
     <<"var int a, b;", "let b = x;", "return b;">>,
     <<"var int a;", "var int b;", "let b = x;", "return b;">>,
     <<"do Output.printInt(x);", "return;">>,
     <<"do g(x);", "return;">>,
     <<"do s.g(x);", "return;">>,
     <<"do " \o cls \o ".h();", "return;">>,
     <<"do " \o cls \o ".g(x);", "return;">>,
     <<"do " \o cls \o ".h(x);", "return;">>,
     <<"do g();", "return;">>,
     <<"do h();", "return;">>,
     <<"var String t;", "do t.length();", "return;">>,
     <<"if (x) {", "return;", "}", "return 1;">>,
     <<"while (x) {", "return 1;", "}", "return;">>,
     <<"let z = 1;", "return;">>,
     <<"return 1 +;">>,
     <<"return #;">>,
     <<"return \"abc;">>,
     <<"/* c", "return;">>}

\* the text of the file of the class
JackText(cls, kind, type, body) ==
    <<"class " \o cls \o " {",
      "field int px, py;",
      "static " \o cls \o " s;",
      kind \o " " \o type \o " " \o (IF kind = "constructor" THEN "new" ELSE "f")
           \o "(int x, int y) {">>
    \o body \o
    <<"}",
      "method int g(int v) {", "return v;", "}",
      "function int h() {", "return 0;", "}",
      "}">>

\* a file whose first token is not one: the lexer raises before the parser
\* has read anything
JackBadStart(cls) == <<"#class " \o cls \o " {", "}">>

\* the directories the compiler is run on
JackInputs ==
    {<<[module |-> cls, lines |-> JackText(cls, kind, type, body)]>> :
        <<cls, kind, type, body>> \in
            {q \in JackClassNames \X SubKinds \X (UNION {SubTypes(c) : c \in JackClassNames})
                                   \X (UNION {JackBodies(c) : c \in JackClassNames}) :
                q[3] \in SubTypes(q[1]) /\ q[4] \in JackBodies(q[1])}}
    \cup {<<[module |-> cls, lines |-> JackBadStart(cls)]>> : cls \in JackClassNames}

InitSpecJack ==
    /\ \E files \in JackInputs : JackStart(files)
    /\ AsmIdle
    /\ CIdle
    /\ VmIdle
    /\ HackOff
    /\ LexIdle

SpecJack == InitSpecJack /\ [][NextJack]_vars

(***************************************************************************)
(* Claims about the Jack compiler                                          *)
(***************************************************************************)
\* the subroutine self.generate_sub has just generated without an exception
SubGenerated == jpc = "subs" /\ jsi >= 1 /\ jret = None

\* that subroutine
CurSub == classes[jci].subs[jsi]

\* where its code begins in the output: the last function header
LastHeader(code) ==
    CHOOSE h \in 1..Len(code) :
        /\ StartsWith(code[h], "function ")
        /\ \A j \in (h + 1)..Len(code) : ~StartsWith(code[j], "function ")

\* its code
SubCode == SubSeq(jout, LastHeader(jout), Len(jout))

\* C13: in the output of an accepted program, every push or pop of `local i`
\* has i smaller than the nLocals of the header `function <Class>.<name>
\* <nLocals>` of the subroutine it stands in, also when one var declaration
\* lists several names.
C13_LocalIndexBelowHeaderCount ==
    (jpc = "done" /\ jret = None) =>
        \A k \in 1..Len(jout) :
            LET w == Split(jout[k]) IN
            (Len(w) = 3 /\ w[1] \in {"push", "pop"} /\ w[2] = "local") =>
                \E h \in 1..(k - 1) :
                    /\ StartsWith(jout[h], "function ")
                    /\ \A j \in (h + 1)..(k - 1) : ~StartsWith(jout[j], "function ")
                    /\ int(w[3]) < int(Split(jout[h])[3])

\* an argument expression that is one variable
IsVarExpr(e) ==
    /\ Len(e.terms) = 1
    /\ e.terms[1].unary = ""
    /\ ~e.terms[1].grouped
    /\ e.terms[1].expr.tag = "Var"
    /\ ~Failed(var_code(syms, e.terms[1].expr.name))

\* the code of a variable: push of its segment and index
VarPush(name) == "push " \o var_code(syms, name).val.code

\* a subroutine whose body is `do <call>; return;` with variables as the
\* arguments of the call
IsDoCallSub(sub) ==
    /\ Len(sub.stmts) = 2
    /\ sub.stmts[1].tag = "DoStmt"
    /\ sub.stmts[2].tag = "RetStmt"
    /\ \A k \in 1..Len(sub.stmts[1].call.params) : IsVarExpr(sub.stmts[1].call.params[k])

\* the three forms of a call: C.F(args) with C a class, v.F(args) with v a
\* variable, F(args) inside a method or constructor
CallForm(sub, call) ==
    IF Len(call.names) = 2
    THEN IF call.names[1].value \in DOMAIN syms.subs \cup DOMAIN OS THEN "class"
         ELSE IF ~Failed(var_code(syms, call.names[1])) THEN "variable"
         ELSE "none"
    ELSE IF sub.mtype \in {"method", "constructor"} THEN "this"
    ELSE "none"

\* the lowering of a call of each form: receiver, arguments in source order,
\* call <T>.<F> <count>
CallLowering(form, call) ==
    LET args == [k \in 1..Len(call.params) |-> VarPush(call.params[k].terms[1].expr.name)]
        n == Len(call.params)
    IN
    CASE form = "class" ->
            args \o <<"call " \o call.names[1].value \o "." \o call.names[2].value
                      \o " " \o Str(n)>>
      [] form = "variable" ->
            <<VarPush(call.names[1])>> \o args
            \o <<"call " \o var_code(syms, call.names[1]).val.ty \o "."
                 \o call.names[2].value \o " " \o Str(n + 1)>>
      [] form = "this" ->
            <<"push pointer 0">> \o args
            \o <<"call " \o syms.class_name \o "." \o call.names[1].value
                 \o " " \o Str(n + 1)>>

\* the lines stand in the code, next to each other
Within(code, part) ==
    \E i \in 0..(Len(code) - Len(part)) : SubSeq(code, i + 1, i + Len(part)) = part

\* C14: the code of an accepted `do <call>;` is the receiver (none for
\* C.F(args) with C a class, push <v> for v.F(args), push pointer 0 for
\* F(args) in a method or constructor), then the code of each argument in
\* source order, then call <T>.<F> <count> with count the number of
\* arguments, one more where there is a receiver, then pop temp 0.
C14_CallLowering ==
    (/\ SubGenerated
     /\ IsDoCallSub(CurSub)
     /\ CallForm(CurSub, CurSub.stmts[1].call) # "none") =>
        Within(SubCode, CallLowering(CallForm(CurSub, CurSub.stmts[1].call),
                                     CurSub.stmts[1].call)
                        \o <<"pop temp 0">>)

\* C15: the code of an accepted constructor of a class with N fields starts
\* with function <Class>.new <nLocals>, push constant N with N the field
\* count in decimal, call Memory.alloc 1, pop pointer 0.
C15_ConstructorPrologue ==
    (SubGenerated /\ CurSub.mtype = "constructor") =>
        /\ Len(SubCode) >= 4
        /\ StartsWith(SubCode[1], "function " \o syms.class_name \o ".new ")
        /\ SubCode[2] = "push constant " \o Str(field_count(syms))
        /\ SubCode[3] = "call Memory.alloc 1"
        /\ SubCode[4] = "pop pointer 0"

\* the first sweep has just accepted the class classes[jci]
ClassSwept == jpc = "sweep" /\ jci >= 1 /\ jret = None

\* C16: a class with the name of a class of the OS table that the first
\* sweep (add_subs) accepts has every subroutine the table declares for that
\* class, with the same kind and the same arity.
C16_BuiltinConformance ==
    (ClassSwept /\ classes[jci].name.value \in DOMAIN OS) =>
        conforms(syms.subs[classes[jci].name.value], OS[classes[jci].name.value])

\* generate_sub has written the header of the first subroutine, whose first
\* statement is a do: its call has gone through check_call in the scope syms
DoCallChecked ==
    /\ jsi = 1
    /\ jpc \in {"subs", "done"}
    /\ Len(jout) > 0
    /\ Len(CurSub.stmts) >= 1
    /\ CurSub.stmts[1].tag = "DoStmt"

\* the name of the subroutine a call names
CalledName(call) == call.names[Len(call.names)]

\* C17: an exception that leaves check_call is a ParseError whose message
\* carries the line of the called name; no exception of another type leaves
\* it.
C17_CallErrorsAreParseErrors ==
    DoCallChecked =>
        LET call == CurSub.stmts[1].call
            r == check_call(syms, call)
        IN
        Failed(r) =>
            /\ r.exc.type = "ParseError"
            /\ StartsWith(r.exc.msg, "line " \o Str(CalledName(call).line) \o ":")

\* a subroutine whose body is `return <constant>;`
IsConstReturn(sub) ==
    /\ Len(sub.stmts) = 1
    /\ sub.stmts[1].tag = "RetStmt"
    /\ sub.stmts[1].expr.tag = "Expr"
    /\ Len(sub.stmts[1].expr.terms) = 1
    /\ sub.stmts[1].expr.terms[1].unary = ""
    /\ ~sub.stmts[1].expr.terms[1].grouped
    /\ sub.stmts[1].expr.terms[1].expr.tag = "Const"

\* the constant such a subroutine returns
ReturnedConst(sub) == sub.stmts[1].expr.terms[1].expr

\* the number of lines generate_sub writes before the statements
EntryLen(sub) ==
    CASE sub.mtype = "method" -> 3
      [] sub.mtype = "constructor" -> 4
      [] OTHER -> 1

\* the code of the returned expression: what stands between the entry code
\* and the final return
ReturnedCode(sub, code) == SubSeq(code, EntryLen(sub) + 1, Len(code) - 1)

RECURSIVE UnaryResult(_, _)
\* the word on the stack after the unary commands of code, from the word v:
\* <<word>>, or <<>> where a line of code is no unary command
UnaryResult(code, v) ==
    IF Len(code) = 0 THEN <<v>>
    ELSE IF code[1] = "neg" THEN UnaryResult(Tail(code), (65536 - v) % 65536)
    ELSE IF code[1] = "not" THEN UnaryResult(Tail(code), 65535 - v)
    ELSE <<>>

\* the word a push of a constant and unary commands leave on the stack:
\* <<word>>, or <<>> where the code is not of that form
WordLeft(code) ==
    IF Len(code) = 0 THEN <<>>
    ELSE LET w == Split(code[1]) IN
         IF Len(w) = 3 /\ w[1] = "push"
            /\ stack("A", "push", <<w[2], w[3]>>) = Push(ConstSeg, w[3])
         THEN UnaryResult(Tail(code), int(w[3]) % 65536)
         ELSE <<>>

\* a push or pop line is a command of the VM language: Parser.stack of the
\* VM translator makes a Push or a Pop of it
IsStackCommand(line) ==
    LET w == Split(line) IN
    (Len(w) >= 1 /\ w[1] \in {"push", "pop"}) =>
        stack("A", w[1], Tail(w)).tag \in {"Push", "Pop"}

\* C18: the code of `return <constant>;` in an accepted subroutine is push
\* constant n for an integer n, a sequence that leaves the all-ones word on
\* the stack for true, push constant 0 for false and null, push pointer 0
\* for this, and every push in it is a command of the VM language, with the
\* segment name constant.
C18_ConstantTerms ==
    (SubGenerated /\ IsConstReturn(CurSub)) =>
        LET c == ReturnedConst(CurSub)
            code == ReturnedCode(CurSub, SubCode)
        IN
        /\ \A k \in 1..Len(code) : IsStackCommand(code[k])
        /\ c.type = "int" => code = <<"push constant " \o c.val>>
        /\ c.val = "true" => WordLeft(code) = <<65535>>
        /\ c.val \in {"false", "null"} => code = <<"push constant 0">>
        /\ c.val = "this" => code = <<"push pointer 0">>

\* the message names a source line: `line` and a number
HasLine(msg) ==
    \E i \in 1..Len(msg) :
        /\ i + 5 <= Len(msg)
        /\ SubSeq(msg, i, i + 4) = "line "
        /\ Ch(msg, i + 5) \in Digit

\* the message names the module
NamesModule(msg, module) == FindStr(msg, module \o ":", 1) > 0

\* C19: every error raised while a Jack module is compiled (lex error, parse
\* error, semantic error) carries the name of the module and the number of
\* the source line in its message.
C19_ErrorsNameModuleAndLine ==
    (jpc = "done" /\ jret # None) =>
        /\ NamesModule(jret.msg, jackFiles[1].module)
        /\ HasLine(jret.msg)

\* generate_sub has run on the first subroutine of the class
FirstSubTried == jsi = 1 /\ jpc \in {"subs", "done"}

RECURSIVE Returns(_)
\* the return statements of a statement list, those of the blocks of if and
\* while included
Returns(stmts) ==
    IF Len(stmts) = 0 THEN <<>>
    ELSE LET s == stmts[1] IN
         (CASE s.tag = "RetStmt" -> <<s>>
            [] s.tag = "WhileStmt" -> Returns(s.stmts)
            [] s.tag = "IfStmt" ->
                  Returns(s.true)
                  \o (IF s.false.tag = "Block" THEN Returns(s.false.stmts) ELSE <<>>)
            [] OTHER -> <<>>)
         \o Returns(Tail(stmts))

\* the declared return type is void
DeclaredVoid(sub) == sub.decl.ty.tag = "Tok" /\ sub.decl.ty.value = "void"

\* `return this;`
IsReturnThis(s) ==
    /\ s.expr.tag = "Expr"
    /\ Len(s.expr.terms) = 1
    /\ s.expr.terms[1].unary = ""
    /\ s.expr.terms[1].expr.tag = "Const"
    /\ s.expr.terms[1].expr.val = "this"

\* the statement list does not end with a return statement
NoFinalReturn(sub) ==
    Len(sub.stmts) = 0 \/ sub.stmts[Len(sub.stmts)].tag # "RetStmt"

\* a return that does not fit the declared type: `return expr;` in a void
\* subroutine, a bare `return;` in another
MisfitReturn(sub) ==
    \E k \in 1..Len(Returns(sub.stmts)) :
        (Returns(sub.stmts)[k].expr.tag # "None") = DeclaredVoid(sub)

\* a constructor whose declared return type is not the enclosing class, or
\* that has a return other than `return this;`
BadConstructor(sub, cls) ==
    /\ sub.mtype = "constructor"
    /\ \/ sub.decl.ty.tag # "Name"
       \/ sub.decl.ty.value # cls.name.value
       \/ \E k \in 1..Len(Returns(sub.stmts)) : ~IsReturnThis(Returns(sub.stmts)[k])

\* C20: a subroutine whose statement list does not end with a return (an
\* empty body included), that has `return expr;` though void or a bare
\* `return;` though not void, or that is a constructor with a return type
\* other than its class or a return other than `return this;`, is rejected
\* with a ParseError; an accepted bare return of a void subroutine emits
\* push constant 0, then return.
C20_ReturnChecks ==
    FirstSubTried =>
        /\ (\/ NoFinalReturn(CurSub)
            \/ MisfitReturn(CurSub)
            \/ BadConstructor(CurSub, classes[jci])) =>
                (jret.tag = "Exc" /\ jret.type = "ParseError")
        /\ (/\ jret = None
            /\ ~NoFinalReturn(CurSub)
            /\ CurSub.stmts[Len(CurSub.stmts)].expr.tag = "None") =>
                Within(SubCode, <<"push constant 0", "return">>)

(***************************************************************************)
(* More Jack programs: expressions, subscripts, loops, several classes.    *)
(***************************************************************************)
\* bodies of the subroutine f(int x, int y) that return an expression of
\* variables
ExprBodies ==
    {<<"return x + y;">>,
     <<"return x - y * x;">>,
     <<"return x & y | x;">>,
     <<"return x < y;">>,
     <<"return x > y;">>,
     <<"return x = y;">>,
     <<"return x / y - px;">>,
     <<"return -x + ~y;">>,
     <<"return x + (y - x) * y;">>,
     <<"return ~(x & -y);">>}

\* bodies whose first statement has a term, or a do, of each form
TermBodies ==
    {<<"return x;">>,
     <<"return x[y];">>,
     <<"return g(x);">>,
     <<"return s.g(x);">>,
     <<"do g(x);", "return 0;">>,
     <<"do s.g(x);", "return 0;">>,
     <<"do x;", "return 0;">>,
     <<"do x[y];", "return 0;">>}

\* bodies with while statements
WhileBodies ==
    {<<"while (x) {", "let x = y;", "}", "return x;">>,
     <<"while (x < y) {", "while (y) {", "let y = x;", "}", "}", "return x;">>,
     <<"while (x) {", "}", "while (y) {", "}", "return x;">>}

\* bodies that begin with a let to an array element
LetBodies ==
    {<<"var Array a;", "let a[x] = a[y];", "return x;">>,
     <<"var Array a;", "let a[x + 1] = y - a[y];", "return x;">>,
     <<"let s[x] = s[y] + s[x];", "return x;">>,
     <<"var Array a, b;", "let a[b[x]] = y;", "return x;">>}

\* the directories of the runs on these programs, one class each
JackPrograms ==
    {<<[module |-> "A", lines |-> JackText("A", kind, "int", body)]>> :
        kind \in {"function", "method"}, body \in ExprBodies \cup TermBodies \cup WhileBodies \cup LetBodies}

InitSpecJackMore ==
    /\ \E files \in JackPrograms : JackStart(files)
    /\ AsmIdle
    /\ CIdle
    /\ VmIdle
    /\ HackOff
    /\ LexIdle

SpecJackMore == InitSpecJackMore /\ [][NextJack]_vars

\* a subroutine whose body is `return <expression>;`
IsExprReturn(sub) ==
    /\ Len(sub.stmts) = 1
    /\ sub.stmts[1].tag = "RetStmt"
    /\ sub.stmts[1].expr.tag = "Expr"

RECURSIVE VarsOnly(_)
\* every term of the expression is a variable or a group of such terms
VarsOnly(e) ==
    \A k \in 1..Len(e.terms) :
        IF e.terms[k].grouped THEN VarsOnly(e.terms[k].expr)
        ELSE e.terms[k].expr.tag = "Var"

RECURSIVE OneTermMore(_)
\* the expression, and every group in it, has one term more than operators
OneTermMore(e) ==
    /\ Len(e.terms) = Len(e.ops) + 1
    /\ \A k \in 1..Len(e.terms) :
          e.terms[k].grouped => OneTermMore(e.terms[k].expr)

\* the VM command of a binary operator
VmOp(op) ==
    CASE op = "+" -> "add"
      [] op = "-" -> "sub"
      [] op = "&" -> "and"
      [] op = "|" -> "or"
      [] op = "<" -> "lt"
      [] op = ">" -> "gt"
      [] op = "=" -> "eq"
      [] op = "*" -> "call Math.multiply 2"
      [] op = "/" -> "call Math.divide 2"

RECURSIVE LeftToRight(_, _)
\* code(t0), then code(tk), vm(opk) for k = 1..n, of the first n operators of
\* the expression e: strictly left to right, the unary command of a term
\* right after the term
LeftToRight(e, n) ==
    LET t == e.terms[n + 1]
        code == (IF t.grouped THEN LeftToRight(t.expr, Len(t.expr.ops))
                 ELSE <<VarPush(t.expr.name)>>)
                \o (CASE t.unary = "-" -> <<"neg">>
                      [] t.unary = "~" -> <<"not">>
                      [] OTHER -> <<>>)
    IN
    IF n = 0 THEN code
    ELSE LeftToRight(e, n - 1) \o code \o <<VmOp(e.ops[n])>>

\* C21: a parsed expression t0 op1 t1 ... opn tn has one term more than
\* operators, and its code is code(t0), code(t1), vm(op1), ..., code(tn),
\* vm(opn): left to right without precedence, the unary neg or not of a term
\* before the operator that consumes the term, * and / as calls of
\* Math.multiply and Math.divide, the others as add, sub, and, or, lt, gt, eq.
C21_LeftToRightExpression ==
    (SubGenerated /\ jsi = 1 /\ IsExprReturn(CurSub) /\ VarsOnly(CurSub.stmts[1].expr)) =>
        LET e == CurSub.stmts[1].expr IN
        /\ OneTermMore(e)
        /\ ReturnedCode(CurSub, SubCode) = LeftToRight(e, Len(e.ops))

\* an expression of three terms with a multiplication was compiled
C21_Witness ==
    /\ SubGenerated
    /\ jsi = 1
    /\ IsExprReturn(CurSub)
    /\ CurSub.stmts[1].expr.ops = <<"-", "*">>
    /\ ReturnedCode(CurSub, SubCode)
         = <<"push argument 0", "push argument 1", "sub", "push argument 0",
             "call Math.multiply 2">>

\* prog.parse_module has been tried on the one file of the directory
ParseTried == (jpc = "parse" /\ jci = 1) \/ (jpc = "done" /\ Len(classes) = 0)

\* the line of the first statement of the subroutine f in JackText
FirstStatementLine == jackFiles[1].lines[5]

\* the first statement of f as parsed
FirstStatement == classes[1].subs[1].stmts[1]

\* the one term of the expression of `return <term>;`
ReturnedTerm == FirstStatement.expr.terms[1].expr

\* C22: the parser accepts as a term a variable x, a subscript x[e], a call
\* F(args) and a call N.F(args), and makes of them a Var, a Subscript, a
\* Call of one name and a Call of two names; after do it accepts the two
\* forms of a call and nothing else.
C22_TermForms ==
    ParseTried =>
        /\ FirstStatementLine = "return x;" =>
              (jret = None /\ ReturnedTerm.tag = "Var")
        /\ FirstStatementLine = "return x[y];" =>
              (jret = None /\ ReturnedTerm.tag = "Subscript")
        /\ FirstStatementLine = "return g(x);" =>
              (jret = None /\ ReturnedTerm.tag = "Call" /\ Len(ReturnedTerm.names) = 1)
        /\ FirstStatementLine = "return s.g(x);" =>
              (jret = None /\ ReturnedTerm.tag = "Call" /\ Len(ReturnedTerm.names) = 2)
        /\ FirstStatementLine = "do g(x);" =>
              (jret = None /\ Len(FirstStatement.call.names) = 1)
        /\ FirstStatementLine = "do s.g(x);" =>
              (jret = None /\ Len(FirstStatement.call.names) = 2)
        /\ FirstStatementLine \in {"do x;", "do x[y];"} => jret # None

(***************************************************************************)
(* src/07/VMTranslator.py: the translator of project 07, one file, no      *)
(* bootstrap; main is one step.  Parser.stack is that of src/08 line for   *)
(* line, the fragments of unaryOp, binaryOp and compOp are the same text.  *)
(***************************************************************************)
\* Parser.parse of src/07, the body of the loop; n is lineno + 1, counted
\* over the lines that are not empty
parseLine07(module, n, text) ==
    LET line == Split(text)
        op == line[1]
        args == Tail(line)
        inst == CASE op \in {"push", "pop"} -> stack(module, op, args)
                  [] op \in {"neg", "not"} -> noArgs(op, args, UnaryOp(op))
                  [] op \in {"add", "sub", "and", "or"} -> noArgs(op, args, BinaryOp(op))
                  [] op \in {"eq", "lt", "gt"} -> noArgs(op, args, CompOp(op))
                  [] OTHER -> Error("unknown instruction")
    IN IF inst.tag = "Error"
       THEN Error(module \o ".vm line " \o Str(n) \o ": " \o inst.msg)
       ELSE inst

\* Parser.parse of src/07
parse07(module, vmLines) ==
    LET kept == SelectSeq([i \in 1..Len(vmLines) |-> Strip(BeforeComment(vmLines[i]))],
                          LAMBDA l : Len(l) > 0)
    IN [n \in 1..Len(kept) |-> parseLine07(module, n, kept[n])]

\* a fragment of Translator.translate of src/07, and what follows it
Fragment07(text, rest) == [exc |-> rest.exc, text |-> text \o rest.text]

RECURSIVE translate07(_, _, _)
\* Translator.translate of src/07 from the command cmds[1] on: [exc, text],
\* exc the exception raised on an Error command or None
translate07(module, cmds07, next_cmp) ==
    IF Len(cmds07) = 0 THEN [exc |-> None, text |-> <<>>]
    ELSE LET cmd == cmds07[1] IN
         CASE cmd.tag \in {"Error", "Crash"} -> [exc |-> Raised(cmd.msg), text |-> <<>>]
           [] cmd.tag = "Push" ->
                 Fragment07(push07(cmd.seg, cmd.idx), translate07(module, Tail(cmds07), next_cmp))
           [] cmd.tag = "Pop" ->
                 Fragment07(pop07(cmd.seg, cmd.idx), translate07(module, Tail(cmds07), next_cmp))
           [] cmd.tag = "UnaryOp" ->
                 Fragment07(unaryOp(cmd.op), translate07(module, Tail(cmds07), next_cmp))
           [] cmd.tag = "BinaryOp" ->
                 Fragment07(binaryOp(cmd.op), translate07(module, Tail(cmds07), next_cmp))
           [] cmd.tag = "CompOp" ->
                 Fragment07(compOp(cmd.op, compLabel(module, cmd.op, next_cmp + 1)),
                            translate07(module, Tail(cmds07), next_cmp + 1))

\* main of src/07 before the run on the file
Vm07Start(files) ==
    /\ vmFiles = files
    /\ vmIsDir = FALSE
    /\ tmpFile = NoFile
    /\ asmOut = NoFile
    /\ vret = None
    /\ fidx = 0
    /\ cmds = <<>>
    /\ tr = NewTranslator("")
    /\ vpc = "start07"

\* main of src/07: what Translator.translate did, r, takes effect: the
\* temporary file becomes the .asm file, or is removed and the message
\* returned
Translated07(r) ==
    IF r.exc = None
    THEN /\ asmOut' = [exists |-> TRUE, text |-> r.text]
         /\ vret' = None
    ELSE /\ asmOut' = asmOut
         /\ vret' = r.exc

\* main of src/07
Vm07Main ==
    /\ vpc = "start07"
    /\ Translated07(translate07(vmFiles[1].module,
                                parse07(vmFiles[1].module, vmFiles[1].lines), 0))
    /\ tmpFile' = NoFile
    /\ vpc' = "done"
    /\ UNCHANGED <<vmFiles, vmIsDir, fidx, cmds, tr>>
    /\ UNCHANGED notVm

(***************************************************************************)
(* pop to argument, local, this and that, run on the machine.              *)
(***************************************************************************)
FloatingSegs == {"argument", "local", "this", "that"}

PopIndexes == {0, 2}

\* one pop to a Floating segment
PopLines == {"pop " \o seg \o " " \o Str(i) : seg \in FloatingSegs, i \in PopIndexes}

\* the files of project 08: Sys.init with one pop, a pop to constant, a
\* constant no A-instruction can hold
PopPrograms08 ==
    {SysInit(<<l>>) : l \in PopLines} \cup BadPrograms
        \cup {SysInit(<<"push constant 40000">>)}

\* the files of project 07: one pop, a command project 07 does not know
PopPrograms07 == {<<l>> : l \in PopLines} \cup {<<"label END">>}

\* the address the four base pointers hold
BaseChoices == {300, 16000, 32767, 32768, 65535}

\* the data memories a pop is run on: the base pointers, R13..R15 and the
\* word on top of the stack
RamChoicesPop ==
    {(0 :> 0) @@ (1 :> b) @@ (2 :> b) @@ (3 :> b) @@ (4 :> b)
        @@ (13 :> 113) @@ (14 :> 114) @@ (15 :> 115) @@ (260 :> v) :
        b \in BaseChoices, v \in V16}

\* the .hack file is loaded and the machine reset; a program of project 07
\* has no bootstrap, its stack pointer is set before the run
HackLoadPop ==
    /\ apc = "done"
    /\ ret = None
    /\ hpc = "off"
    /\ rom' = hackFile.text
    /\ \E m \in RamChoicesPop : ram' = IF fidx = 0 THEN Wr(m, 0, BootSP) ELSE m
    /\ ram0' = ram'
    /\ regA' = 0
    /\ regD' = 0
    /\ PC' = 0
    /\ hpc' = "run"
    /\ UNCHANGED notHack

NextPop ==
    \/ Vm07Main
    \/ NextVm
    \/ Handoff
    \/ NextAsm
    \/ HackLoadPop
    \/ HackStepA
    \/ HackStepC

InitSpecPop ==
    /\ \/ \E prog \in PopPrograms08 : VmStart(<<[module |-> "Sys", lines |-> prog]>>, TRUE)
       \/ \E prog \in PopPrograms07 : Vm07Start(<<[module |-> "Sys", lines |-> prog]>>)
    /\ AsmIdle
    /\ CIdle
    /\ HackOff
    /\ LexIdle
    /\ JackIdle

\* the translators of projects 07 and 08 on one pop, assembler and machine
SpecPop == InitSpecPop /\ [][NextPop]_vars

\* the file was translated by src/07
Is07 == fidx = 0

\* the line of the pop in the file
PopLine == IF Is07 THEN ProgLines[1] ELSE ProgLines[2]

IsPopProgram == Len(ProgLines) > 0 /\ PopLine \in PopLines

\* the machine has run the last instruction of the pop
PopDone ==
    /\ hpc = "run"
    /\ IF Is07 THEN PC = Len(rom) ELSE AtLabel("Sys.init$END")

\* the base pointer of a Floating segment
BaseCell(seg) ==
    CASE seg = "local" -> 1
      [] seg = "argument" -> 2
      [] seg = "this" -> 3
      [] seg = "that" -> 4

\* the cell RAM[B] + i names before the pop, the sum taken modulo 2^16
PopTarget ==
    LET seg == Split(PopLine)[2]
        i == getInt(Split(PopLine)[3])
    IN Addr((Rd(ram0, BaseCell(seg)) + i) % Word16)

BodyCode == SubSeq(SubCode, EntryLen(CurSub) + 1, Len(SubCode))

\* the subroutine f has been generated and its first statement is a `tag`
FirstIs(tag) ==
    /\ SubGenerated
    /\ jsi = 1
    /\ Len(CurSub.stmts) > 0
    /\ CurSub.stmts[1].tag = tag

\* the labels the goto and if-goto commands of the code name
GotoTargets(code) ==
    {Split(code[i])[2] :
        i \in {j \in 1..Len(code) : Split(code[j])[1] \in {"goto", "if-goto"}}}

\* the number of `label name` commands in the code
LabelCount(code, name) == Cardinality({i \in 1..Len(code) : code[i] = "label " \o name})

\* the label of the first while of the subroutine f of class A
FirstWhile == "A.f.while_1"

\* C24: the code of a while statement begins with `label L_check`, ends with
\* `goto L_check`, `label L_done`, and every label a goto or if-goto of the
\* subroutine names is defined by exactly one label command of the
\* subroutine.
C24_WhileLabels ==
    FirstIs("WhileStmt") =>
        /\ BodyCode[1] = "label " \o FirstWhile \o "_check"
        /\ \E i \in 1..Len(BodyCode) - 1 :
              /\ BodyCode[i] = "goto " \o FirstWhile \o "_check"
              /\ BodyCode[i + 1] = "label " \o FirstWhile \o "_done"
        /\ \A name \in GotoTargets(SubCode) : LabelCount(SubCode, name) = 1

\* the code of `let a[i] = rhs;` in the order of the claim, rhs and i
\* generated with the symbols of the subroutine
LetElementCode(node) ==
    Generate("generate_expr", syms, node.expr).out
        \o <<"push " \o arr_code(syms, node.lvalue.name).val.code>>
        \o Generate("generate_expr", syms, node.lvalue.idx).out
        \o <<"add", "pop pointer 1", "pop that 0">>

\* C25: the code of `let a[i] = rhs;` is the code of rhs, `push a`, the code
\* of i, add, pop pointer 1, pop that 0, in this order; the pop pointer 1
\* of the target is the last but one command, after all of rhs.
C25_LetElementOrder ==
    (FirstIs("LetStmt") /\ CurSub.stmts[1].lvalue.tag = "Subscript") =>
        LET node == CurSub.stmts[1]
            want == LetElementCode(node)
            rhs == Generate("generate_expr", syms, node.expr).out
        IN  /\ SubSeq(BodyCode, 1, Len(want)) = want
            /\ Len(rhs) > 0
            /\ \A i \in 1..Len(want) :
                  want[i] = "pop that 0" => (i = Len(want) /\ BodyCode[i - 1] = "pop pointer 1")

C25_Witness ==
    /\ FirstIs("LetStmt")
    /\ CurSub.mtype = "function"
    /\ BodyCode =
          <<"push static 0", "push argument 1", "add", "pop pointer 1", "push that 0",
            "push static 0", "push argument 0", "add", "pop pointer 1", "push that 0",
            "add",
            "push static 0", "push argument 0", "add", "pop pointer 1", "pop that 0",
            "push argument 0", "return">>

(***************************************************************************)
(* The codes of the variables of two classes.                              *)
(***************************************************************************)
\* the class variables of A and of B
CvarsA ==
    {<<"static int sa, sb;", "field int px, py;", "static A sc;">>,
     <<"field int px;", "static int sa;", "field A py, pz;">>,
     <<"field int px;">>}

CvarsB ==
    {<<"static int ta;", "field int qa, qb;">>,
     <<"field int px;", "static B tb, tc;">>}

\* class A: the subroutine f with the arguments x and px, px a field too,
\* and three locals, and the function g
SymTextA(cvars, kind) ==
    <<"class A {">> \o cvars \o
    <<kind \o (IF kind = "constructor" THEN " A new" ELSE " int f") \o "(int x, A px) {",
      "var int u, v;",
      "var A w;",
      IF kind = "constructor" THEN "return this;" ELSE "return px;",
      "}",
      "function int g() {", "var int x;", "return x;", "}",
      "}">>

\* class B: a method whose argument is named as a static of some B
SymTextB(cvars) ==
    <<"class B {">> \o cvars \o
    <<"method int m(int ta) {", "var int k;", "return ta;", "}",
      "}">>

SymPrograms ==
    {<<[module |-> "A", lines |-> SymTextA(ca, kind)],
       [module |-> "B", lines |-> SymTextB(cb)]>> :
        ca \in CvarsA, cb \in CvarsB, kind \in {"function", "method", "constructor"}}

InitSpecJackSyms ==
    (\E files \in SymPrograms : JackStart(files)) /\ AsmIdle /\ CIdle /\ VmIdle /\ HackOff
        /\ LexIdle

\* the compiler on the programs of SymPrograms
SpecJackSyms == InitSpecJackSyms /\ [][NextJack]_vars

RECURSIVE NamesOf(_, _)
\* the names of the class variables of one scope, in the order declared
NamesOf(cvars, scope) ==
    IF Len(cvars) = 0 THEN <<>>
    ELSE (IF cvars[1].scope = scope
          THEN [k \in 1..Len(cvars[1].decl.names) |-> cvars[1].decl.names[k].value]
          ELSE <<>>)
         \o NamesOf(Tail(cvars), scope)

RECURSIVE LocalNames(_)
\* the names of the locals of a subroutine, in the order declared
LocalNames(locs) ==
    IF Len(locs) = 0 THEN <<>>
    ELSE [k \in 1..Len(locs[1].names) |-> locs[1].names[k].value] \o LocalNames(Tail(locs))

RECURSIVE StaticsBefore(_)
\* the number of statics the classes before classes[ci] declare
StaticsBefore(ci) ==
    IF ci <= 1 THEN 0
    ELSE StaticsBefore(ci - 1) + Len(NamesOf(classes[ci - 1].cvars, "static"))

\* add_class has run on classes[jci]
ClassIn == jpc = "subs" /\ jret = None

\* the code var_code finds for the name n
CodeOf(n) == var_code(syms, [tag |-> "Name", line |-> 0, value |-> n]).val.code

\* C26: the statics get static 0, 1, 2, ... in the order declared, on through
\* the classes; the fields of each class this 0, 1, ...; the arguments of
\* each subroutine argument 0, 1, ... (in a method argument 1, 2, ...), its
\* locals local 0, 1, ..., in the order declared; a name of the subroutine
\* hides the same name of the class.
C26_VariableCodes ==
    /\ ClassIn =>
          LET st == NamesOf(classes[jci].cvars, "static")
              fl == NamesOf(classes[jci].cvars, "field")
          IN  /\ \A k \in 1..Len(st) :
                    syms.cvars[st[k]].code = "static " \o Str(StaticsBefore(jci) + k - 1)
              /\ \A k \in 1..Len(fl) : syms.cvars[fl[k]].code = "this " \o Str(k - 1)
    /\ SubGenerated =>
          LET first == IF CurSub.mtype = "method" THEN 1 ELSE 0
              locs == LocalNames(CurSub.locs)
          IN  /\ \A k \in 1..Len(CurSub.args) :
                    CodeOf(CurSub.args[k].names[1].value) = "argument " \o Str(first + k - 1)
              /\ \A k \in 1..Len(locs) : CodeOf(locs[k]) = "local " \o Str(k - 1)
              /\ DOMAIN syms.fvars
                    = {CurSub.args[k].names[1].value : k \in 1..Len(CurSub.args)}
                         \cup {locs[k] : k \in 1..Len(locs)}
              /\ \A n \in DOMAIN syms.fvars \cap DOMAIN syms.cvars :
                    CodeOf(n) = syms.fvars[n].code /\ CodeOf(n) # syms.cvars[n].code

\* in the method m of B, after the three statics of A: the static ta of B is
\* static 3, the field qb this 1, and the argument ta, argument 1, hides the
\* static
C26_Witness ==
    /\ SubGenerated
    /\ jci = 2
    /\ CurSub.mtype = "method"
    /\ StaticsBefore(2) = 3
    /\ "ta" \in DOMAIN syms.cvars
    /\ syms.cvars["ta"].code = "static 3"
    /\ syms.cvars["qb"].code = "this 1"
    /\ CodeOf("ta") = "argument 1"
    /\ CodeOf("k") = "local 0"
    /\ SubCode[Len(SubCode) - 1] = "push argument 1"

(***************************************************************************)
(* The lexer of the Jack compiler run on its own: the generator `lexer` is *)
(* drawn from until it is exhausted or raises.                             *)
(***************************************************************************)
LexStart(ls) ==
    /\ lexLines = ls
    /\ lexToks = <<>>
    /\ lexExc = None
    /\ lpc = "start"

\* the tokens r of lexer(lexLines) have been drawn
Lexed(r) ==
    IF Raises(r)
    THEN /\ lexToks' = SubSeq(r, 1, Len(r) - 1)
         /\ lexExc' = Exc(r[Len(r)].tok, r[Len(r)].txt)
    ELSE /\ lexToks' = r
         /\ lexExc' = None

\* list(lexer(lines))
LexRun ==
    /\ lpc = "start"
    /\ Lexed(lexer(lexLines))
    /\ lpc' = "done"
    /\ UNCHANGED lexLines
    /\ UNCHANGED notLex

NextLex == LexRun

\* the 21 reserved words of Jack
ReservedWords ==
    {"class", "constructor", "function", "method", "field", "static", "var",
     "int", "char", "boolean", "void", "true", "false", "null", "this",
     "let", "do", "if", "else", "while", "return"}

\* lexemes that match [A-Za-z]\w*
Lexemes ==
    ReservedWords
        \cup {"EOF", "identifier", "stringConstant", "integerConstant", "keyword", "symbol",
              "x", "classy", "Class", "do1", "a_b", "If", "thisx", "nul"}

\* lines of one-letter names, comments and a character the lexer refuses
CommentLines ==
    {"a", "/* b", "c */ d", "/* e */ f", "g // h", "", "#", "i /* j */ k /* l"}

MaxLexLines == 3

LexInputs ==
    {<<w>> : w \in Lexemes}
        \cup UNION {[1..n -> CommentLines] : n \in 0..MaxLexLines}

InitSpecLex ==
    /\ \E ls \in LexInputs : LexStart(ls)
    /\ AsmIdle
    /\ CIdle
    /\ VmIdle
    /\ HackOff
    /\ JackIdle

\* the lexer on the inputs of LexInputs
SpecLex == InitSpecLex /\ [][NextLex]_vars

\* the lexer has read one line that is one lexeme
OneLexeme ==
    /\ lpc = "done"
    /\ Len(lexLines) = 1
    /\ Len(lexLines[1]) > 0
    /\ IdentLen(lexLines[1], 1) = Len(lexLines[1])

\* C27: a lexeme that matches [A-Za-z]\w* gives a keyword token if and only
\* if it is one of the 21 reserved words, and otherwise the token Tok.ID of
\* type identifier whose text is the lexeme.
C27_KeywordsAndIdentifiers ==
    OneLexeme =>
        /\ lexExc = None
        /\ Len(lexToks) = 3
        /\ lexToks[1].type = "keyword" <=> lexLines[1] \in ReservedWords
        /\ lexLines[1] \notin ReservedWords =>
              /\ lexToks[1].type = "identifier"
              /\ lexToks[1].tok = "identifier"
              /\ lexToks[1].txt = lexLines[1]

RECURSIVE Visible(_, _, _)
\* the characters of a line from position p on that are neither blank nor
\* in a comment, and whether the line ends inside a block comment
Visible(line, p, cc) ==
    IF p > Len(line) THEN [names |-> <<>>, cc |-> cc]
    ELSE IF cc
    THEN IF match(line, p, "*/") THEN Visible(line, p + 2, FALSE)
         ELSE Visible(line, p + 1, TRUE)
    ELSE IF match(line, p, "/*") THEN Visible(line, p + 2, TRUE)
    ELSE IF match(line, p, "//") THEN [names |-> <<>>, cc |-> FALSE]
    ELSE IF Ch(line, p) = " " THEN Visible(line, p + 1, FALSE)
    ELSE LET r == Visible(line, p + 1, FALSE) IN
         [names |-> <<Ch(line, p)>> \o r.names, cc |-> r.cc]

\* the token of one character: a name of one letter or a symbol
OneChar(c, lno) ==
    IF c \in Alpha THEN Token("identifier", "identifier", c, lno) ELSE Token("symbol", c, c, lno)

RECURSIVE Outside(_, _, _)
\* the characters of the lines from lno on that lie outside comments, each
\* as a token with its line, and whether the text ends in a comment
Outside(ls, lno, cc) ==
    IF lno > Len(ls) THEN [toks |-> <<>>, cc |-> cc]
    ELSE LET v == Visible(ls[lno], 1, cc)
             r == Outside(ls, lno + 1, v.cc)
         IN [toks |-> [k \in 1..Len(v.names) |-> OneChar(v.names[k], lno)] \o r.toks,
             cc |-> r.cc]

\* the lexer has read lines of CommentLines
CommentsLexed == lpc = "done" /\ \A k \in 1..Len(lexLines) : lexLines[k] \in CommentLines

\* a character the lexer refuses stands outside the comments
Refused == \E k \in 1..Len(Outside(lexLines, 1, FALSE).toks) :
              Outside(lexLines, 1, FALSE).toks[k].txt \notin Alpha \cup Tok

IsEOF(t) == t.type = "EOF" /\ t.tok = "EOF"

\* C28: on every sequence of lines, the empty one too, the lexer raises a lex
\* error or yields the tokens outside the comments, in the order of the
\* source with their line numbers from 1, and then exactly two EOF tokens;
\* text that ends inside a block comment raises `unterminated comment`.
C28_CommentsAndEOF ==
    CommentsLexed =>
        LET want == Outside(lexLines, 1, FALSE) IN
        /\ lexExc # None => lexExc.type = "LexError"
        /\ lexExc = None =>
              /\ Len(lexToks) = Len(want.toks) + 2
              /\ SubSeq(lexToks, 1, Len(want.toks)) = want.toks
              /\ IsEOF(lexToks[Len(lexToks) - 1])
              /\ IsEOF(lexToks[Len(lexToks)])
        /\ (want.cc /\ ~Refused) =>
              /\ lexExc # None
              /\ lexExc.msg = "line " \o Str(Len(lexLines)) \o ": unterminated comment"
        /\ (~want.cc /\ ~Refused) => lexExc = None

(***************************************************************************)
(* Two subroutines of one class, of the same name or not.                  *)
(***************************************************************************)
SubKinds3 == {"function", "method", "constructor"}

\* a subroutine without arguments whose body is a while and a return
DupSub(kind, name) ==
    <<kind \o (IF kind = "constructor" THEN " A " ELSE " int ") \o name \o "() {",
      "while (1) {",
      "}",
      IF kind = "constructor" THEN "return this;" ELSE "return 0;",
      "}">>

\* class A with two subroutines; the name of the second is on line 7
DupPrograms ==
    {<<[module |-> "A",
        lines |-> <<"class A {">> \o DupSub(k1, n1) \o DupSub(k2, n2) \o <<"}">>]>> :
        k1 \in SubKinds3, k2 \in SubKinds3, n1 \in {"f", "g"}, n2 \in {"f", "g"}}

InitSpecJackDup ==
    /\ \E files \in DupPrograms : JackStart(files)
    /\ AsmIdle
    /\ CIdle
    /\ VmIdle
    /\ HackOff
    /\ LexIdle

\* the compiler on the programs of DupPrograms
SpecJackDup == InitSpecJackDup /\ [][NextJack]_vars

\* the lines of the code that begin with the word op
CommandsOf(code, op) == {i \in 1..Len(code) : Split(code[i])[1] = op}

\* no two commands `op ...` of the code are equal
NoTwoEqual(code, op) ==
    \A i, j \in CommandsOf(code, op) : i # j => code[i] # code[j]

\* the run on a program of DupPrograms has ended
DupDone == jpc = "done" /\ Len(classes) = 1 /\ Len(classes[1].subs) = 2

SameName == classes[1].subs[1].decl.names[1].value = classes[1].subs[2].decl.names[1].value

\* C29: no two subroutines are emitted with the same `function` header and
\* no two labels of the emitted code are equal; a class with two
\* subroutines of the same name, of the same kind or not, is rejected with
\* a redefinition error that names the second of them and its line.
C29_NoDuplicateSubroutines ==
    DupDone =>
        /\ NoTwoEqual(jout, "function")
        /\ NoTwoEqual(jout, "label")
        /\ SameName =>
              LET sname == classes[1].subs[2].decl.names[1] IN
              /\ jret # None
              /\ jret.msg = "module A: line " \o Str(sname.line) \o ": "
                                \o sname.value \o " redefined"

(***************************************************************************)
(* The assembly the translator of project 08 emits, read by the assembler. *)
(***************************************************************************)
\* the translator has accepted the program and written the .asm file
VmAccepted == vpc = "done" /\ vret = None

\* the .asm file is written and the assembler not yet begun
AsmWritten == VmAccepted /\ apc = "idle"

\* the lines of the .asm file as the assembler reads them
EmittedLines == stripAll(asmOut.text)

\* C30: every line the project-08 translator emits for a program its parser
\* accepts is accepted by the assembler: the number of every `@n` is at most
\* 32767, every symbol and label has the assembler's syntax, and the
\* assembler ends without an error.
C30_EmittedAssemblyAccepted ==
    /\ AsmWritten =>
          \A i \in 1..Len(EmittedLines) :
              LET line == EmittedLines[i] IN
              /\ parseLine(i, line).tag # "Error"
              /\ (Ch(line, 1) = "@" /\ MatchConst(Operand(line))) => int(Operand(line)) <= 32767
    /\ (VmAccepted /\ apc = "done") => ret = None

====
